---- MODULE Spec2Model ----
(***************************************************************************)
(* A model of the two orchestrator packages of mcp-lazy-orchestrator:      *)
(*   src/orchestrator      ToolProxy + MCPConnectionPool (asyncio tasks)   *)
(*   src/mcp_orchestrator  OrchestratorState + activate/deactivate,        *)
(*                         ServerRegistry                                  *)
(* Python dicts are functions whose DOMAIN is the key set; lists are       *)
(* sequences; the Docker MCP backend is the environment.                   *)
(***************************************************************************)
EXTENDS Integers, Sequences, FiniteSets, TLC

VARIABLES
    tool_to_server,     \* ToolProxy._tool_to_server : tool name -> server
    server_tools,       \* ToolProxy._server_tools   : server -> list of tools
    server_info,        \* MCPConnectionPool._server_info : server -> ServerInfo
    lock,               \* MCPConnectionPool._lock : holder task or "none"
    task,               \* per asyncio task: position and what the call did so far
    docker_enabled,     \* servers the Docker MCP backend has enabled (orchestrator)
    now,                \* time.time() / datetime.now(), in seconds
    hist,               \* the last proxy registrations, most recent last
    active_servers,     \* OrchestratorState.active_servers (mcp_orchestrator)
    server_tools_cache, \* OrchestratorState.server_tools_cache
    events,             \* Telemetry.events
    enabled,            \* servers the Docker MCP backend has enabled (mcp_orchestrator)
    usage,              \* UsageMonitor.usage
    result,             \* what the last coordinator operation returned and did
    registry,           \* ServerRegistry: servers, last_discovery
    refreshed,          \* what the last ServerRegistry.refresh did and returned
    idle_timeout,       \* UsageMonitor.idle_timeout, in seconds
    recommended,        \* what the last recommend_deactivation was asked and answered
    task_description,   \* the task text handed to the orchestrator, a string of characters
    task_options,       \* the flags handed to activate_for_task with it
    config_path,        \* the catalog file CapabilitiesRegistry was loaded from
    analysis            \* the TaskAnalysis of the last activate_for_task, if it made one

proxyVars == <<tool_to_server, server_tools>>
poolVars  == <<server_info, lock, task, docker_enabled, now>>
orchVars  == <<tool_to_server, server_tools, server_info, lock, task,
               docker_enabled, hist>>
coordVars == <<active_servers, server_tools_cache, events, enabled, usage, result>>
regVars   == <<registry, refreshed>>
monVars   == <<idle_timeout, recommended>>
taskVars  == <<task_description, task_options, config_path, analysis>>

----------------------------------------------------------------------------
(* Universe and bounds *)

Servers == {"x", "y"}
Tools   == {"t1", "t2"}
Procs   == {"p1", "p2"}

MaxToolList == 2        \* longest tool list a server reports
TimeStep    == 15       \* granularity of the clock, seconds
MaxTime     == 45       \* the clock stops here
MaxHist     == 2        \* registrations remembered in hist
MaxBatchCalls == 1      \* start_servers / stop_servers calls one client makes
MaxEvents   == 2        \* activations are not started with this many events logged
RegStep     == 150      \* granularity of the registry's clock, seconds
RegMaxTime  == 600      \* the registry's clock stops here
MaxDiscoveries == 3     \* discovery passes in one run
MonStep     == 300      \* granularity of the usage monitor's clock, seconds
MonMaxTime  == 900      \* the usage monitor's clock stops here
MaxUses     == 2        \* tool uses tracked per server
MaxWords    == 3        \* words in a task text
HistoryLimit == 2       \* Telemetry.max_events as set in the telemetry specification
MaxLogged   == 5        \* log_activation calls in one run
MaxEmbedded == 2        \* servers of a catalog whose similarities vary one by one

status_check_ttl == 30  \* MCPConnectionPool(status_check_ttl=30)

RECURSIVE SeqsUpTo(_, _)
SeqsUpTo(S, n) ==
    IF n = 0 THEN {<<>>}
    ELSE LET shorter == SeqsUpTo(S, n - 1)
         IN  shorter \cup {Append(q, e) : q \in shorter, e \in S}

ToolLists == SeqsUpTo(Tools, MaxToolList)

Range(q) == {q[i] : i \in 1..Len(q)}

----------------------------------------------------------------------------
(* Python dict operations *)

DictSet(d, k, v) == [a \in DOMAIN d \cup {k} |-> IF a = k THEN v ELSE d[a]]
DictPop(d, k)    == [a \in DOMAIN d \ {k} |-> d[a]]
EmptyDict        == <<>>

----------------------------------------------------------------------------
(* ToolProxy: the ToolIndex *)

\* for tool in tools: self._tool_to_server[tool.name] = server
RECURSIVE MapTools(_, _, _)
MapTools(index, server, tools) ==
    IF tools = <<>> THEN index
    ELSE MapTools(DictSet(index, Head(tools), server), server, Tail(tools))

\* for tool in tools: self._tool_to_server.pop(tool.name, None)
RECURSIVE PopTools(_, _)
PopTools(index, tools) ==
    IF tools = <<>> THEN index
    ELSE PopTools(DictPop(index, Head(tools)), Tail(tools))

\* a lookup that falls back to a default server instead of None
get_server_for_tool_default(tool) ==
    IF tool \in DOMAIN tool_to_server THEN tool_to_server[tool] ELSE "x"

\* ToolProxy.get_server_for_tool: dict.get, None when absent
get_server_for_tool(tool) ==
    IF tool \in DOMAIN tool_to_server THEN tool_to_server[tool] ELSE "none"

Remember(h, e) == IF Len(h) < MaxHist THEN Append(h, e) ELSE Append(Tail(h), e)

\* ToolProxy.register_tools(server, tools)
register_tools(server, tools) ==
    /\ server_tools' = DictSet(server_tools, server, tools)
    /\ tool_to_server' = MapTools(tool_to_server, server, tools)
    /\ hist' = Remember(hist, [op |-> "register", server |-> server])

\* ToolProxy.unregister_server(server).  The call
\* self._pool.invalidate_server_cache(server) creates a coroutine that is never
\* awaited (unregister_server is not async), so the pool's cache is not touched.
unregister_server(server) ==
    /\ IF server \in DOMAIN server_tools
       THEN /\ tool_to_server' = PopTools(tool_to_server, server_tools[server])
            /\ server_tools' = DictPop(server_tools, server)
       ELSE UNCHANGED proxyVars
    /\ hist' = Remember(hist, [op |-> "unregister", server |-> server])

\* the start_servers handler registers a server only "if tools:"
RegisterTools ==
    \E s \in Servers, tl \in ToolLists \ {<<>>} :
        /\ register_tools(s, tl)
        /\ UNCHANGED <<poolVars, coordVars, regVars, monVars, taskVars>>

UnregisterServer ==
    \E s \in Servers :
        /\ unregister_server(s)
        /\ UNCHANGED <<poolVars, coordVars, regVars, monVars, taskVars>>

----------------------------------------------------------------------------
IdleTask == [pc |-> "idle", op |-> "none", tool |-> "none", server |-> "none",
             reads |-> 0, writes |-> 0, queries |-> 0, invokes |-> 0,
             invals |-> 0, age |-> -1, gate |-> "none", inv |-> "none",
             re |-> "none", res |-> "none", err |-> "none", raised |-> FALSE,
             ticket |-> 0, locals |-> <<>>, calls |-> 0]

----------------------------------------------------------------------------
(* MCPConnectionPool: the Status Cache, and ToolProxy.call_tool on top of it. *)
(* A task runs until its next real suspension point: a backend subprocess    *)
(* (get_active_servers, docker call_tool) or a wait for the pool's lock.     *)

\* the tasks queued for the pool's lock: in get_server_info ("lock") or in
\* invalidate_server_cache / invalidate_all_cache ("inval").  asyncio.Lock
\* wakes its waiters first come, first served: `ticket` is the place in the
\* queue, 1 for the task that gets the lock next, 0 for a task not queued.
WaitingPcs == {"lock", "inval"}

Waiting(p) == task[p].pc \in WaitingPcs

\* asyncio.Lock.acquire returns at once only when the lock is free and
\* nobody is queued for it
LockFree(p) == lock = "none" /\ \A q \in Procs \ {p} : ~Waiting(q)

\* the TTL test with <= in place of <
CacheValidInclusive(info) ==
    /\ info.last_checked # 0
    /\ (now - info.last_checked) <= status_check_ttl

\* get_server_info: "if info.last_checked and
\*                   (time.time() - info.last_checked) < self.status_check_ttl"
CacheValid(info) ==
    /\ info.last_checked # 0
    /\ (now - info.last_checked) < status_check_ttl

\* task p goes on as t.  A task that starts to wait joins the back of the
\* lock's queue; when a queued task leaves the queue the tasks behind it move up
Finish(p, t, cache, l) ==
    /\ task' = [q \in Procs |->
                  IF q = p
                  THEN [t EXCEPT !.ticket =
                          IF t.pc \in WaitingPcs
                          THEN 1 + Cardinality({r \in Procs \ {p} : Waiting(r)})
                          ELSE 0]
                  ELSE IF task[p].ticket > 0 /\ task[q].ticket > task[p].ticket
                  THEN [task[q] EXCEPT !.ticket = @ - 1]
                  ELSE task[q]]
    /\ server_info' = cache
    /\ lock' = l

\* ToolProxy.call_tool's except clauses: what the caller gets for an exception
\* raised by call_tool_via_cli
ProxyCatch(exc) ==
    CASE exc = "ToolNotFoundError"   -> [err |-> "tool_not_found", raised |-> FALSE]
      [] exc = "ConnectionError"     -> [err |-> "connection_failure", raised |-> FALSE]
      [] exc = "ServerNotFoundError" -> [err |-> "server_not_found", raised |-> FALSE]
      [] OTHER                       -> [err |-> "backend_error", raised |-> FALSE]

Returned(t, exc) ==
    [t EXCEPT !.pc = "idle", !.res = "none",
              !.err = ProxyCatch(exc).err, !.raised = ProxyCatch(exc).raised]

\* MCPConnectionPool.invalidate_server_cache body: self._server_info.pop(server, None)
invalidate_server_cache(cache, server) == DictPop(cache, server)

\* a handler that surfaces the error without invalidating
OnConnectionErrorNoInvalidate(p, t, cache, l) ==
    Finish(p, Returned(t, "ConnectionError"), cache, l)

\* "except ConnectionError" of ToolProxy.call_tool:
\* await self._pool.invalidate_server_cache(server); return None, error
OnConnectionError(p, t, cache, l) ==
    IF l = "none" /\ \A q \in Procs \ {p} : ~Waiting(q)
    THEN Finish(p, Returned([t EXCEPT !.invals = @ + 1], "ConnectionError"),
                invalidate_server_cache(cache, t.server), "none")
    ELSE Finish(p, [t EXCEPT !.pc = "inval"], cache, l)

\* call_tool_via_cli without the "not server_info.is_active" test
AfterInfoNoGate(p, t, cache, l, is_active) ==
    IF t.op = "call_tool"
    THEN Finish(p, [t EXCEPT !.gate = IF is_active THEN "active" ELSE "inactive",
                             !.pc = "invoke", !.invokes = @ + 1], cache, l)
    ELSE Finish(p, [t EXCEPT !.pc = "idle",
                             !.res = IF is_active THEN "active" ELSE "inactive"],
                cache, l)

\* What follows get_server_info's answer.  call_tool_via_cli:
\*   if not server_info or not server_info.is_active: raise ConnectionError
\*   result = await self.docker_client.call_tool(tool_name, arguments)
AfterInfo(p, t, cache, l, is_active) ==
    IF t.op = "call_tool"
    THEN IF ~is_active
         THEN OnConnectionError(p, [t EXCEPT !.gate = "inactive"], cache, l)
         ELSE Finish(p, [t EXCEPT !.gate = "active", !.pc = "invoke",
                                  !.invokes = @ + 1], cache, l)
    ELSE Finish(p, [t EXCEPT !.pc = "idle",
                             !.res = IF is_active THEN "active" ELSE "inactive"],
                cache, l)

\* a get_server_info that queries the backend whatever the cache holds
EnterInfoUncached(p, t) ==
    Finish(p, [t EXCEPT !.reads = @ + 1, !.pc = "query", !.queries = @ + 1],
           server_info, p)

\* get_server_info, lock just acquired: the cache check, then either the cached
\* answer or the backend query _check_server_status (lock held meanwhile)
EnterInfo(p, t) ==
    IF t.server \in DOMAIN server_info /\ CacheValid(server_info[t.server])
    THEN AfterInfo(p, [t EXCEPT !.reads = @ + 1,
                                !.age = now - server_info[t.server].last_checked],
                   server_info, "none", server_info[t.server].is_active)
    ELSE Finish(p, [t EXCEPT !.reads = @ + 1, !.pc = "query", !.queries = @ + 1],
                server_info, p)

\* "async with self._lock" at the top of get_server_info
StartInfo(p, t) ==
    IF LockFree(p) THEN EnterInfo(p, t)
    ELSE Finish(p, [t EXCEPT !.pc = "lock"], server_info, lock)

\* ToolProxy.call_tool(tool_name, arguments)
call_tool(p, tool) ==
    LET server == get_server_for_tool(tool)
        t == [IdleTask EXCEPT !.op = "call_tool", !.tool = tool, !.server = server]
    IN  IF server = "none"
        THEN Finish(p, [t EXCEPT !.err = "not_found"], server_info, lock)
        ELSE StartInfo(p, t)

CallTool(p) ==
    /\ task[p].pc = "idle"
    /\ \E tool \in Tools : call_tool(p, tool)
    /\ UNCHANGED <<proxyVars, docker_enabled, now, hist, coordVars, regVars, monVars, taskVars>>

\* MCPConnectionPool.get_server_info(server)
GetServerInfo(p) ==
    /\ task[p].pc = "idle"
    /\ \E s \in Servers :
          StartInfo(p, [IdleTask EXCEPT !.op = "get_server_info", !.server = s])
    /\ UNCHANGED <<proxyVars, docker_enabled, now, hist, coordVars, regVars, monVars, taskVars>>

\* MCPConnectionPool.ensure_server_active(server):
\* server_info = await self.get_server_info(server); return server_info.is_active
EnsureServerActive(p) ==
    /\ task[p].pc = "idle"
    /\ \E s \in Servers :
          StartInfo(p, [IdleTask EXCEPT !.op = "ensure_server_active", !.server = s])
    /\ UNCHANGED <<proxyVars, docker_enabled, now, hist, coordVars, regVars, monVars, taskVars>>

\* MCPConnectionPool.is_server_active(server): the cached flag, no TTL check
is_server_active(p, s) ==
    LET t == [IdleTask EXCEPT !.op = "is_server_active", !.server = s, !.reads = 1]
    IN  IF s \notin DOMAIN server_info
        THEN Finish(p, [t EXCEPT !.res = "inactive"], server_info, lock)
        ELSE Finish(p, [t EXCEPT !.age = now - server_info[s].last_checked,
                                 !.res = IF server_info[s].is_active
                                         THEN "active" ELSE "inactive"],
                    server_info, lock)

IsServerActive(p) ==
    /\ task[p].pc = "idle"
    /\ \E s \in Servers : is_server_active(p, s)
    /\ UNCHANGED <<proxyVars, docker_enabled, now, hist, coordVars, regVars, monVars, taskVars>>

\* the task at the front of the queue, waiting in get_server_info, gets the lock
LockAcquire(p) ==
    /\ task[p].pc = "lock"
    /\ lock = "none"
    /\ task[p].ticket = 1
    /\ EnterInfo(p, task[p])
    /\ UNCHANGED <<proxyVars, docker_enabled, now, hist, coordVars, regVars, monVars, taskVars>>

\* _check_server_status: "return server in active_servers", None on any exception
check_server_status(server, ok) ==
    IF ~ok THEN "unknown"
    ELSE IF server \in docker_enabled THEN "active" ELSE "inactive"

\* get_server_info after the backend answered (lock held): None removes the
\* entry and raises ServerNotFoundError, otherwise the entry is rewritten
QueryReturn(p) ==
    /\ task[p].pc = "query"
    /\ \E ok \in BOOLEAN :
         LET t  == task[p]
             st == check_server_status(t.server, ok)
         IN  IF st = "unknown"
             THEN LET t1 == [t EXCEPT !.gate = "unknown",
                                      !.writes = IF t.server \in DOMAIN server_info
                                                 THEN @ + 1 ELSE @]
                  IN  IF t.op = "call_tool"
                      THEN Finish(p, Returned(t1, "ServerNotFoundError"),
                                  DictPop(server_info, t.server), "none")
                      ELSE Finish(p, [t1 EXCEPT !.pc = "idle",
                                                !.err = "server_not_found",
                                                !.raised = TRUE],
                                  DictPop(server_info, t.server), "none")
             ELSE AfterInfo(p, [t EXCEPT !.writes = @ + 1],
                            DictSet(server_info, t.server,
                                    [is_active |-> st = "active", last_checked |-> now]),
                            "none", st = "active")
    /\ UNCHANGED <<proxyVars, docker_enabled, now, hist, coordVars, regVars, monVars, taskVars>>

\* docker_client.call_tool returned or raised.  call_tool_via_cli re-raises
\* ToolNotFoundError, and on any other exception asks the backend again
InvokeReturn(p) ==
    /\ task[p].pc = "invoke"
    /\ \E out \in {"ok", "tool_not_found", "error"} :
         LET t == [task[p] EXCEPT !.inv = out]
         IN  CASE out = "ok" ->
                    Finish(p, [t EXCEPT !.pc = "idle", !.res = "value"],
                           server_info, lock)
               [] out = "tool_not_found" ->
                    Finish(p, Returned(t, "ToolNotFoundError"), server_info, lock)
               [] OTHER ->
                    Finish(p, [t EXCEPT !.pc = "recheck", !.queries = @ + 1],
                           server_info, lock)
    /\ UNCHANGED <<proxyVars, docker_enabled, now, hist, coordVars, regVars, monVars, taskVars>>

\* "is_active = await self._check_server_status(server)
\*  if not is_active: raise ConnectionError(...) from e
\*  raise"
AfterRecheck(p, t, st) ==
    IF st # "active"
    THEN OnConnectionError(p, [t EXCEPT !.re = st], server_info, lock)
    ELSE Finish(p, Returned([t EXCEPT !.re = st], "CommandError"), server_info, lock)

RecheckReturn(p) ==
    /\ task[p].pc = "recheck"
    /\ \E ok \in BOOLEAN :
          AfterRecheck(p, task[p], check_server_status(task[p].server, ok))
    /\ UNCHANGED <<proxyVars, docker_enabled, now, hist, coordVars, regVars, monVars, taskVars>>

\* MCPConnectionPool.invalidate_all_cache(): self._server_info.clear() under
\* the lock
invalidate_all_cache(p) ==
    LET t == [IdleTask EXCEPT !.op = "invalidate_all_cache"]
    IN  IF LockFree(p)
        THEN Finish(p, [t EXCEPT !.invals = @ + 1], EmptyDict, "none")
        ELSE Finish(p, [t EXCEPT !.pc = "inval"], server_info, lock)

InvalidateAllCache(p) ==
    /\ task[p].pc = "idle"
    /\ invalidate_all_cache(p)
    /\ UNCHANGED <<proxyVars, docker_enabled, now, hist, coordVars, regVars, monVars, taskVars>>

\* the task at the front of the queue, waiting in invalidate_server_cache or
\* invalidate_all_cache, gets the lock: the entry is popped (the cache is
\* cleared) and the lock released; call_tool then returns its error
InvalAcquire(p) ==
    /\ task[p].pc = "inval"
    /\ lock = "none"
    /\ task[p].ticket = 1
    /\ IF task[p].op = "invalidate_all_cache"
       THEN Finish(p, [task[p] EXCEPT !.pc = "idle", !.invals = @ + 1],
                   EmptyDict, "none")
       ELSE Finish(p, Returned([task[p] EXCEPT !.invals = @ + 1], "ConnectionError"),
                   invalidate_server_cache(server_info, task[p].server), "none")
    /\ UNCHANGED <<proxyVars, docker_enabled, now, hist, coordVars, regVars, monVars, taskVars>>

(* Environment *)
\* the servers of the backend's inventory: it can enable each of them
BackendInventory == Servers

\* the backend enables or disables a server behind the orchestrator's back
DockerFlip ==
    /\ \E s \in Servers :
          docker_enabled' = IF s \in docker_enabled
                            THEN docker_enabled \ {s} ELSE docker_enabled \cup {s}
    /\ UNCHANGED <<proxyVars, server_info, lock, task, now, hist, coordVars, regVars, monVars, taskVars>>

Tick ==
    /\ now + TimeStep <= MaxTime
    /\ now' = now + TimeStep
    /\ UNCHANGED <<proxyVars, server_info, lock, task, docker_enabled, hist, coordVars, regVars, monVars, taskVars>>

----------------------------------------------------------------------------
(* mcp_orchestrator: the coordinator (server.py), telemetry and usage monitor. *)
(* The handlers are async but await nothing that suspends (the CLI is run    *)
(* with subprocess.run), so each one is a single step.                       *)

max_events == 1000      \* Telemetry.max_events

\* the server lists a caller passes: any list no longer than the catalog
BatchLists == SeqsUpTo(Servers, Cardinality(Servers))

\* a catalog file: "x" declares "y" as related (as redis declares context7 in
\* the defaults), "context7" declares "x"; "y" has no entry
BaseOrder == <<"x", "context7">>

BaseCapabilities ==
    [name \in Range(BaseOrder) |->
        CASE name = "x" ->   \* relational store / sql
            [purpose |-> <<"r", "e", "l", "a", "t", "i", "o", "n", "a", "l", " ", "s", "t", "o", "r", "e">>,
             covers_technologies |-> <<<<"s", "q", "l">>>>,
             related_servers |-> <<"y">>]
          [] name = "context7" ->   \* library documentation / redis
            [purpose |-> <<"l", "i", "b", "r", "a", "r", "y", " ", "d", "o", "c", "u", "m", "e", "n", "t", "a", "t", "i", "o", "n">>,
             covers_technologies |-> <<<<"r", "e", "d", "i", "s">>>>,
             related_servers |-> <<"x">>]
    ]

\* a catalog file with two servers: "A" is tagged database and sql and declares
\* "D" as related, "B" is tagged caching
ExampleOrder == <<"A", "B">>

ExampleCapabilities ==
    [name \in Range(ExampleOrder) |->
        CASE name = "A" ->   \* relational store / database, sql
            [purpose |-> <<"r", "e", "l", "a", "t", "i", "o", "n", "a", "l", " ", "s", "t", "o", "r", "e">>,
             covers_technologies |-> <<<<"d", "a", "t", "a", "b", "a", "s", "e">>,
                                      <<"s", "q", "l">>>>,
             related_servers |-> <<"D">>]
          [] name = "B" ->   \* key value store / caching
            [purpose |-> <<"k", "e", "y", " ", "v", "a", "l", "u", "e", " ", "s", "t", "o", "r", "e">>,
             covers_technologies |-> <<<<"c", "a", "c", "h", "i", "n", "g">>>>,
             related_servers |-> <<>>]
    ]

\* CapabilitiesRegistry._load_default_capabilities: the built-in catalog
DefaultOrder == <<"context7", "redis", "postgres", "playwright", "github", "fetch", "desktop-commander", "sequential-thinking">>

DefaultCapabilities ==
    [name \in Range(DefaultOrder) |->
        CASE name = "context7" ->   \* Up-to-date library documentation / redis, postgres, fastapi, django, react, vue, kubernetes, sqlalchemy, pytest, celery, docker, nginx, python, javascript, typescript, node, express, flask, tornado, aiohttp, requests, pandas, numpy, tensorflow, pytorch, opencv
            [purpose |-> <<"U", "p", "-", "t", "o", "-", "d", "a", "t", "e", " ", "l", "i", "b", "r", "a", "r", "y", " ", "d", "o", "c", "u", "m", "e", "n", "t", "a", "t", "i", "o", "n">>,
             covers_technologies |-> <<<<"r", "e", "d", "i", "s">>,
                                      <<"p", "o", "s", "t", "g", "r", "e", "s">>,
                                      <<"f", "a", "s", "t", "a", "p", "i">>,
                                      <<"d", "j", "a", "n", "g", "o">>,
                                      <<"r", "e", "a", "c", "t">>,
                                      <<"v", "u", "e">>,
                                      <<"k", "u", "b", "e", "r", "n", "e", "t", "e", "s">>,
                                      <<"s", "q", "l", "a", "l", "c", "h", "e", "m", "y">>,
                                      <<"p", "y", "t", "e", "s", "t">>,
                                      <<"c", "e", "l", "e", "r", "y">>,
                                      <<"d", "o", "c", "k", "e", "r">>,
                                      <<"n", "g", "i", "n", "x">>,
                                      <<"p", "y", "t", "h", "o", "n">>,
                                      <<"j", "a", "v", "a", "s", "c", "r", "i", "p", "t">>,
                                      <<"t", "y", "p", "e", "s", "c", "r", "i", "p", "t">>,
                                      <<"n", "o", "d", "e">>,
                                      <<"e", "x", "p", "r", "e", "s", "s">>,
                                      <<"f", "l", "a", "s", "k">>,
                                      <<"t", "o", "r", "n", "a", "d", "o">>,
                                      <<"a", "i", "o", "h", "t", "t", "p">>,
                                      <<"r", "e", "q", "u", "e", "s", "t", "s">>,
                                      <<"p", "a", "n", "d", "a", "s">>,
                                      <<"n", "u", "m", "p", "y">>,
                                      <<"t", "e", "n", "s", "o", "r", "f", "l", "o", "w">>,
                                      <<"p", "y", "t", "o", "r", "c", "h">>,
                                      <<"o", "p", "e", "n", "c", "v">>>>,
             related_servers |-> <<>>]
          [] name = "redis" ->   \* Redis database operations / caching, sessions, pub/sub, queues, locks
            [purpose |-> <<"R", "e", "d", "i", "s", " ", "d", "a", "t", "a", "b", "a", "s", "e", " ", "o", "p", "e", "r", "a", "t", "i", "o", "n", "s">>,
             covers_technologies |-> <<<<"c", "a", "c", "h", "i", "n", "g">>,
                                      <<"s", "e", "s", "s", "i", "o", "n", "s">>,
                                      <<"p", "u", "b", "/", "s", "u", "b">>,
                                      <<"q", "u", "e", "u", "e", "s">>,
                                      <<"l", "o", "c", "k", "s">>>>,
             related_servers |-> <<"context7">>]
          [] name = "postgres" ->   \* PostgreSQL database access / sql, database, queries, postgresql
            [purpose |-> <<"P", "o", "s", "t", "g", "r", "e", "S", "Q", "L", " ", "d", "a", "t", "a", "b", "a", "s", "e", " ", "a", "c", "c", "e", "s", "s">>,
             covers_technologies |-> <<<<"s", "q", "l">>,
                                      <<"d", "a", "t", "a", "b", "a", "s", "e">>,
                                      <<"q", "u", "e", "r", "i", "e", "s">>,
                                      <<"p", "o", "s", "t", "g", "r", "e", "s", "q", "l">>>>,
             related_servers |-> <<"context7">>]
          [] name = "playwright" ->   \* Browser automation / browser, screenshots, scraping, testing, e2e
            [purpose |-> <<"B", "r", "o", "w", "s", "e", "r", " ", "a", "u", "t", "o", "m", "a", "t", "i", "o", "n">>,
             covers_technologies |-> <<<<"b", "r", "o", "w", "s", "e", "r">>,
                                      <<"s", "c", "r", "e", "e", "n", "s", "h", "o", "t", "s">>,
                                      <<"s", "c", "r", "a", "p", "i", "n", "g">>,
                                      <<"t", "e", "s", "t", "i", "n", "g">>,
                                      <<"e", "2", "e">>>>,
             related_servers |-> <<"context7">>]
          [] name = "github" ->   \* GitHub integration / git, github, repository, issues, prs
            [purpose |-> <<"G", "i", "t", "H", "u", "b", " ", "i", "n", "t", "e", "g", "r", "a", "t", "i", "o", "n">>,
             covers_technologies |-> <<<<"g", "i", "t">>,
                                      <<"g", "i", "t", "h", "u", "b">>,
                                      <<"r", "e", "p", "o", "s", "i", "t", "o", "r", "y">>,
                                      <<"i", "s", "s", "u", "e", "s">>,
                                      <<"p", "r", "s">>>>,
             related_servers |-> <<"context7">>]
          [] name = "fetch" ->   \* HTTP client for web requests / http, api, fetch, download, requests
            [purpose |-> <<"H", "T", "T", "P", " ", "c", "l", "i", "e", "n", "t", " ", "f", "o", "r", " ", "w", "e", "b", " ", "r", "e", "q", "u", "e", "s", "t", "s">>,
             covers_technologies |-> <<<<"h", "t", "t", "p">>,
                                      <<"a", "p", "i">>,
                                      <<"f", "e", "t", "c", "h">>,
                                      <<"d", "o", "w", "n", "l", "o", "a", "d">>,
                                      <<"r", "e", "q", "u", "e", "s", "t", "s">>>>,
             related_servers |-> <<"context7">>]
          [] name = "desktop-commander" ->   \* Desktop automation and file system / file, folder, directory, command, shell
            [purpose |-> <<"D", "e", "s", "k", "t", "o", "p", " ", "a", "u", "t", "o", "m", "a", "t", "i", "o", "n", " ", "a", "n", "d", " ", "f", "i", "l", "e", " ", "s", "y", "s", "t", "e", "m">>,
             covers_technologies |-> <<<<"f", "i", "l", "e">>,
                                      <<"f", "o", "l", "d", "e", "r">>,
                                      <<"d", "i", "r", "e", "c", "t", "o", "r", "y">>,
                                      <<"c", "o", "m", "m", "a", "n", "d">>,
                                      <<"s", "h", "e", "l", "l">>>>,
             related_servers |-> <<>>]
          [] name = "sequential-thinking" ->   \* Structured problem-solving through sequential reasoning / reasoning, planning, analysis, thinking
            [purpose |-> <<"S", "t", "r", "u", "c", "t", "u", "r", "e", "d", " ", "p", "r", "o", "b", "l", "e", "m", "-", "s", "o", "l", "v", "i", "n", "g", " ", "t", "h", "r", "o", "u", "g", "h", " ", "s", "e", "q", "u", "e", "n", "t", "i", "a", "l", " ", "r", "e", "a", "s", "o", "n", "i", "n", "g">>,
             covers_technologies |-> <<<<"r", "e", "a", "s", "o", "n", "i", "n", "g">>,
                                      <<"p", "l", "a", "n", "n", "i", "n", "g">>,
                                      <<"a", "n", "a", "l", "y", "s", "i", "s">>,
                                      <<"t", "h", "i", "n", "k", "i", "n", "g">>>>,
             related_servers |-> <<>>]
    ]

\* the catalog files config_path can name; "none" is no file found
ConfigPaths == {"base", "example", "none"}

\* the keys of CapabilitiesRegistry.registry, in the order they were loaded
CatalogOrder ==
    CASE config_path = "base" -> BaseOrder
      [] config_path = "example" -> ExampleOrder
      [] OTHER -> DefaultOrder

\* CapabilitiesRegistry.registry: loaded from the file at config_path, or the
\* defaults when there is none
Capabilities ==
    CASE config_path = "base" -> BaseCapabilities
      [] config_path = "example" -> ExampleCapabilities
      [] OTHER -> DefaultCapabilities

\* the tool names the backend lists for a server
BackendTools(s) == IF s = "x" THEN <<"t1">> ELSE <<"t2", "t1">>

\* what the backend does with one "server enable" and the "tools list" after it
EnableOutcomes == {"ok", "ok_tools_failed", "failed", "timeout"}

\* run_docker_mcp_command: (True, stdout) on return code 0, (False, message) on a
\* non-zero code, a timeout or any exception
run_docker_mcp_command(outcome) ==
    CASE outcome \in {"ok", "ok_tools_failed"} -> [success |-> TRUE, error |-> "none"]
      [] outcome = "timeout" -> [success |-> FALSE, error |-> "timed_out"]
      [] OTHER -> [success |-> FALSE, error |-> "command_failed"]

\* enable_server / disable_server
enable_server(outcome)  == run_docker_mcp_command(outcome)
disable_server(outcome) == run_docker_mcp_command(outcome)

\* get_server_tools: [] when the listing fails
get_server_tools(server_name, outcome) ==
    IF outcome = "ok" THEN BackendTools(server_name) ELSE <<>>

\* a history that stops growing at the limit by dropping the newest event
log_activation_keep_first(evts, limit, server, success, error) ==
    LET all == Append(evts, [server |-> server, success |-> success, error |-> error])
    IN  IF Len(all) > limit THEN SubSeq(all, 1, limit) ELSE all

\* Telemetry.log_activation on an instance whose max_events attribute is
\* `limit` (0 or more): append, then, when the list is longer than the
\* limit, self.events = self.events[-self.max_events:], the last `limit`
\* events; events[-0:] is the whole list
log_activation_with(evts, limit, server, success, error) ==
    LET all == Append(evts, [server |-> server, success |-> success, error |-> error])
    IN  IF Len(all) > limit /\ limit # 0
        THEN SubSeq(all, Len(all) - limit + 1, Len(all))
        ELSE all

\* a telemetry that records successful activations only
log_activation_successes(evts, server, success, error) ==
    IF success THEN log_activation_with(evts, max_events, server, success, error)
    ELSE evts

\* Telemetry.log_activation on a freshly constructed Telemetry
log_activation(evts, server, success, error) ==
    log_activation_with(evts, max_events, server, success, error)

\* every event logged so far, evicted or not
Logged == IF result.op = "log_activation" THEN result.logged ELSE <<>>

\* telemetry.log_activation(server, reason, success, error=...) on a Telemetry
\* whose max_events was set to HistoryLimit
LogActivation ==
    /\ Len(Logged) < MaxLogged
    /\ \E server \in Servers, success \in BOOLEAN :
          LET error == IF success THEN "none" ELSE "Failed to enable server"
          IN  /\ events' = log_activation_with(events, HistoryLimit, server,
                                               success, error)
              /\ result' = [op |-> "log_activation", seq |-> 1 - result.seq,
                            logged |-> Append(Logged,
                                [server |-> server, success |-> success,
                                 error |-> error])]
    /\ UNCHANGED <<orchVars, now, active_servers, server_tools_cache, enabled,
                   usage, regVars, monVars, taskVars>>

\* an activation that is counted as an access
track_activation_counting(u, server_name) ==
    IF server_name \notin DOMAIN u
    THEN DictSet(u, server_name, [last_used |-> now, access_count |-> 1,
                                  tool_usage |-> EmptyDict])
    ELSE [u EXCEPT ![server_name].last_used = now,
                   ![server_name].access_count = @ + 1]

\* UsageMonitor.track_activation
track_activation(u, server_name) ==
    IF server_name \notin DOMAIN u
    THEN DictSet(u, server_name, [last_used |-> now, access_count |-> 0,
                                  tool_usage |-> EmptyDict])
    ELSE [u EXCEPT ![server_name].last_used = now]

\* activate_servers, lines 366-375: for dep in caps.related_servers:
\*     if dep not in servers_to_activate: servers_to_activate.append(dep)
RECURSIVE AddDeps(_, _)
AddDeps(list, deps) ==
    IF deps = <<>> THEN list
    ELSE AddDeps(IF Head(deps) \in Range(list) THEN list ELSE Append(list, Head(deps)),
                 Tail(deps))

RECURSIVE ExpandDeps(_, _)
ExpandDeps(servers, acc) ==
    IF servers = <<>> THEN acc
    ELSE ExpandDeps(Tail(servers),
                    IF Head(servers) \in DOMAIN Capabilities
                    THEN AddDeps(acc, Capabilities[Head(servers)].related_servers)
                    ELSE acc)

servers_to_activate(servers, auto_activate_deps) ==
    IF auto_activate_deps THEN ExpandDeps(servers, servers) ELSE servers

\* a read of the tool cache that finds nothing
CacheGetEmpty(cache, server_name) == <<>>

\* state.server_tools_cache.get(server_name, [])
CacheGet(cache, server_name) ==
    IF server_name \in DOMAIN cache THEN cache[server_name] ELSE <<>>

\* a round that counts a server as failed when its tool listing fails
ActivateOneListingRequired(st, server_name, outcome) ==
    IF server_name \in st.active
    THEN [st EXCEPT !.tools = Append(@, [server |-> server_name,
                                         tools |-> CacheGet(st.cache, server_name),
                                         status |-> "already_active"])]
    ELSE LET r == enable_server(outcome)
             tools == get_server_tools(server_name, outcome)
         IN  IF r.success /\ outcome = "ok"
             THEN [st EXCEPT !.active = @ \cup {server_name},
                             !.cache = DictSet(@, server_name, tools),
                             !.tools = Append(@, [server |-> server_name,
                                                  tools |-> tools,
                                                  status |-> "activated"]),
                             !.activated = Append(@, server_name),
                             !.usage = track_activation(@, server_name),
                             !.events = log_activation(@, server_name, TRUE, "none"),
                             !.enabled = @ \cup {server_name},
                             !.attempts = Append(@, [server |-> server_name,
                                                     success |-> TRUE])]
             ELSE [st EXCEPT !.failed = Append(@, server_name),
                             !.events = log_activation(@, server_name, FALSE, r.error),
                             !.enabled = IF r.success THEN @ \cup {server_name} ELSE @,
                             !.attempts = Append(@, [server |-> server_name,
                                                     success |-> r.success])]

\* one round of the loop "for server_name in servers_to_activate"
ActivateOne(st, server_name, outcome) ==
    IF server_name \in st.active
    THEN [st EXCEPT !.tools = Append(@, [server |-> server_name,
                                         tools |-> CacheGet(st.cache, server_name),
                                         status |-> "already_active"])]
    ELSE LET r == enable_server(outcome)
             tools == get_server_tools(server_name, outcome)
         IN  IF r.success
             THEN [st EXCEPT !.active = @ \cup {server_name},
                             !.cache = DictSet(@, server_name, tools),
                             !.tools = Append(@, [server |-> server_name,
                                                  tools |-> tools,
                                                  status |-> "activated"]),
                             !.activated = Append(@, server_name),
                             !.usage = track_activation(@, server_name),
                             !.events = log_activation(@, server_name, TRUE, "none"),
                             !.enabled = @ \cup {server_name},
                             !.attempts = Append(@, [server |-> server_name,
                                                     success |-> TRUE])]
             ELSE [st EXCEPT !.failed = Append(@, server_name),
                             !.events = log_activation(@, server_name, FALSE, r.error),
                             !.attempts = Append(@, [server |-> server_name,
                                                     success |-> FALSE])]

\* a loop that gives up at the first failed enable
RECURSIVE ActivateLoopAborting(_, _, _)
ActivateLoopAborting(st, list, i) ==
    IF i > Len(list) THEN {st}
    ELSE IF list[i] \in st.active
         THEN ActivateLoopAborting(ActivateOne(st, list[i], "ok"), list, i + 1)
         ELSE UNION {IF enable_server(o).success
                     THEN ActivateLoopAborting(ActivateOne(st, list[i], o), list, i + 1)
                     ELSE {ActivateOne(st, list[i], o)} : o \in EnableOutcomes}

\* the loop "for server_name in servers_to_activate": every final state it can
\* reach, the backend answering each enable as it likes
RECURSIVE ActivateLoop(_, _, _)
ActivateLoop(st, list, i) ==
    IF i > Len(list) THEN {st}
    ELSE IF list[i] \in st.active
         THEN ActivateLoop(ActivateOne(st, list[i], "ok"), list, i + 1)
         ELSE UNION {ActivateLoop(ActivateOne(st, list[i], o), list, i + 1) :
                        o \in EnableOutcomes}

LoopStart ==
    [active |-> active_servers, cache |-> server_tools_cache, events |-> events,
     usage |-> usage, enabled |-> enabled, tools |-> <<>>, activated |-> <<>>,
     failed |-> <<>>, deactivated |-> <<>>, attempts |-> <<>>]

NextSeq == 1 - result.seq

\* activate_servers(servers, reason, auto_activate_deps)
activate_servers(servers, auto_activate_deps) ==
    \E list \in {servers_to_activate(servers, auto_activate_deps)} :
    \E st \in ActivateLoop(LoopStart, list, 1) :
        /\ Len(st.events) <= MaxEvents
        /\ active_servers' = st.active
        /\ server_tools_cache' = st.cache
        /\ events' = st.events
        /\ usage' = st.usage
        /\ enabled' = st.enabled
        /\ result' = [op |-> "activate", seq |-> NextSeq, servers |-> servers,
                      auto |-> auto_activate_deps, expanded |-> list,
                      attempts |-> st.attempts, activated |-> st.activated,
                      failed |-> st.failed, tools |-> st.tools]

ActivateServers ==
    /\ \E servers \in BatchLists, auto \in BOOLEAN :
            activate_servers(servers, auto)
    /\ UNCHANGED <<orchVars, now, regVars, monVars, taskVars>>

DisableOutcomes == {"ok", "failed", "timeout"}

\* a round that drops the tool-cache entry even when the disable failed
DeactivateOneEvicting(st, server, outcome) ==
    IF server \notin st.active THEN st
    ELSE LET r == disable_server(outcome)
         IN  IF r.success
             THEN [st EXCEPT !.active = @ \ {server},
                             !.cache = DictPop(@, server),
                             !.deactivated = Append(@, server),
                             !.enabled = @ \ {server},
                             !.attempts = Append(@, [server |-> server,
                                                     success |-> TRUE])]
             ELSE [st EXCEPT !.failed = Append(@, server),
                             !.cache = DictPop(@, server),
                             !.attempts = Append(@, [server |-> server,
                                                     success |-> FALSE])]

\* one round of the loop "for server in servers" of deactivate_servers
DeactivateOne(st, server, outcome) ==
    IF server \notin st.active THEN st
    ELSE LET r == disable_server(outcome)
         IN  IF r.success
             THEN [st EXCEPT !.active = @ \ {server},
                             !.cache = DictPop(@, server),
                             !.deactivated = Append(@, server),
                             !.enabled = @ \ {server},
                             !.attempts = Append(@, [server |-> server,
                                                     success |-> TRUE])]
             ELSE [st EXCEPT !.failed = Append(@, server),
                             !.attempts = Append(@, [server |-> server,
                                                     success |-> FALSE])]

\* a loop that gives up at the first failed disable
RECURSIVE DeactivateLoopAborting(_, _, _)
DeactivateLoopAborting(st, list, i) ==
    IF i > Len(list) THEN {st}
    ELSE IF list[i] \notin st.active
         THEN DeactivateLoopAborting(DeactivateOne(st, list[i], "ok"), list, i + 1)
         ELSE UNION {IF disable_server(o).success
                     THEN DeactivateLoopAborting(DeactivateOne(st, list[i], o), list, i + 1)
                     ELSE {DeactivateOne(st, list[i], o)} : o \in DisableOutcomes}

\* the loop "for server in servers" of deactivate_servers: every final state it
\* can reach, the backend answering each disable as it likes
RECURSIVE DeactivateLoop(_, _, _)
DeactivateLoop(st, list, i) ==
    IF i > Len(list) THEN {st}
    ELSE IF list[i] \notin st.active
         THEN DeactivateLoop(DeactivateOne(st, list[i], "ok"), list, i + 1)
         ELSE UNION {DeactivateLoop(DeactivateOne(st, list[i], o), list, i + 1) :
                        o \in DisableOutcomes}

\* the orders list(state.active_servers) can have
ListsOf(S) == {q \in SeqsUpTo(S, Cardinality(S)) :
                  Len(q) = Cardinality(S) /\ Range(q) = S}

\* a deactivation that also forgets the usage of the servers it deactivated
deactivate_servers_forgetting(servers, all) ==
    \E st \in DeactivateLoop(LoopStart, servers, 1) :
        /\ active_servers' = st.active
        /\ server_tools_cache' = st.cache
        /\ enabled' = st.enabled
        /\ result' = [op |-> "deactivate", seq |-> NextSeq, servers |-> servers,
                      all |-> all, attempts |-> st.attempts,
                      deactivated |-> st.deactivated, failed |-> st.failed,
                      still_active |-> st.active]
        /\ usage' = [n \in DOMAIN usage \ Range(st.deactivated) |-> usage[n]]
        /\ UNCHANGED events

\* deactivate_servers(servers); `all` stands for servers=None
deactivate_servers(servers, all) ==
    \E st \in DeactivateLoop(LoopStart, servers, 1) :
        /\ active_servers' = st.active
        /\ server_tools_cache' = st.cache
        /\ enabled' = st.enabled
        /\ result' = [op |-> "deactivate", seq |-> NextSeq, servers |-> servers,
                      all |-> all, attempts |-> st.attempts,
                      deactivated |-> st.deactivated, failed |-> st.failed,
                      still_active |-> st.active]
        /\ UNCHANGED <<events, usage>>

DeactivateServers ==
    /\ \/ \E servers \in BatchLists : deactivate_servers(servers, FALSE)
       \/ \E servers \in ListsOf(active_servers) : deactivate_servers(servers, TRUE)
    /\ UNCHANGED <<orchVars, now, regVars, monVars, taskVars>>

----------------------------------------------------------------------------
(* Python strings: a str is a sequence of one-character strings *)

LowerCase == <<"a", "b", "c", "d", "e", "f", "g", "h", "i", "j", "k", "l", "m", "n", "o", "p", "q", "r", "s", "t", "u", "v", "w", "x", "y", "z">>
UpperCase == <<"A", "B", "C", "D", "E", "F", "G", "H", "I", "J", "K", "L", "M", "N", "O", "P", "Q", "R", "S", "T", "U", "V", "W", "X", "Y", "Z">>

\* str.lower() on one character
LowerChar(c) ==
    IF \E i \in 1..Len(UpperCase) : UpperCase[i] = c
    THEN LowerCase[CHOOSE i \in 1..Len(UpperCase) : UpperCase[i] = c]
    ELSE c

\* str.lower() that leaves the text as it is
LowerKeepCase(text) == text

\* str.lower()
Lower(text) == [i \in 1..Len(text) |-> LowerChar(text[i])]

\* the Python test "kw in text" on two strings
Contains(kw, text) ==
    \E i \in 1..(Len(text) - Len(kw) + 1) : SubSeq(text, i, i + Len(kw) - 1) = kw

\* any(kw in task_lower for kw in keywords)
AnyKeyword(keywords, task_lower) ==
    \E k \in 1..Len(keywords) : Contains(keywords[k], task_lower)

----------------------------------------------------------------------------
(* mcp_orchestrator: ServerDiscovery (discovery.py) *)

\* ServerDiscovery.CATEGORY_KEYWORDS, in the order of the dict literal
CATEGORY_KEYWORDS == <<
    [category |-> "database",
     keywords |-> <<
        <<"r", "e", "d", "i", "s">>,   \* "redis"
        <<"p", "o", "s", "t", "g", "r", "e", "s">>,   \* "postgres"
        <<"m", "y", "s", "q", "l">>,   \* "mysql"
        <<"m", "o", "n", "g", "o", "d", "b">>,   \* "mongodb"
        <<"s", "q", "l", "i", "t", "e">>,   \* "sqlite"
        <<"d", "b">>    \* "db"
     >>],
    [category |-> "browser",
     keywords |-> <<
        <<"p", "l", "a", "y", "w", "r", "i", "g", "h", "t">>,   \* "playwright"
        <<"p", "u", "p", "p", "e", "t", "e", "e", "r">>,   \* "puppeteer"
        <<"s", "e", "l", "e", "n", "i", "u", "m">>,   \* "selenium"
        <<"b", "r", "o", "w", "s", "e", "r">>    \* "browser"
     >>],
    [category |-> "documentation",
     keywords |-> <<
        <<"c", "o", "n", "t", "e", "x", "t", "7">>,   \* "context7"
        <<"d", "o", "c", "s">>,   \* "docs"
        <<"r", "e", "a", "d", "m", "e">>,   \* "readme"
        <<"d", "o", "c", "u", "m", "e", "n", "t", "a", "t", "i", "o", "n">>    \* "documentation"
     >>],
    [category |-> "version_control",
     keywords |-> <<
        <<"g", "i", "t", "h", "u", "b">>,   \* "github"
        <<"g", "i", "t", "l", "a", "b">>,   \* "gitlab"
        <<"b", "i", "t", "b", "u", "c", "k", "e", "t">>,   \* "bitbucket"
        <<"g", "i", "t">>    \* "git"
     >>],
    [category |-> "networking",
     keywords |-> <<
        <<"f", "e", "t", "c", "h">>,   \* "fetch"
        <<"h", "t", "t", "p">>,   \* "http"
        <<"c", "u", "r", "l">>,   \* "curl"
        <<"r", "e", "q", "u", "e", "s", "t", "s">>,   \* "requests"
        <<"a", "p", "i">>    \* "api"
     >>],
    [category |-> "system",
     keywords |-> <<
        <<"d", "e", "s", "k", "t", "o", "p">>,   \* "desktop"
        <<"c", "o", "m", "m", "a", "n", "d", "e", "r">>,   \* "commander"
        <<"f", "i", "l", "e">>,   \* "file"
        <<"s", "h", "e", "l", "l">>,   \* "shell"
        <<"c", "o", "m", "m", "a", "n", "d">>    \* "command"
     >>],
    [category |-> "reasoning",
     keywords |-> <<
        <<"t", "h", "i", "n", "k", "i", "n", "g">>,   \* "thinking"
        <<"s", "e", "q", "u", "e", "n", "t", "i", "a", "l">>,   \* "sequential"
        <<"p", "l", "a", "n", "n", "i", "n", "g">>,   \* "planning"
        <<"r", "e", "a", "s", "o", "n">>    \* "reason"
     >>]
>>

\* the loop "for category, keywords in self.CATEGORY_KEYWORDS.items()"
RECURSIVE ScanCategories(_, _)
ScanCategories(combined, i) ==
    IF i > Len(CATEGORY_KEYWORDS) THEN "other"
    ELSE IF AnyKeyword(CATEGORY_KEYWORDS[i].keywords, combined)
         THEN CATEGORY_KEYWORDS[i].category
         ELSE ScanCategories(combined, i + 1)

\* a category taken from the server name alone
detect_category_name_only(server_name, description) ==
    ScanCategories(Lower(server_name), 1)

\* ServerDiscovery._detect_category(server_name, description)
detect_category(server_name, description) ==
    ScanCategories(Lower(server_name) \o <<" ">> \o Lower(description), 1)

\* the server names _detect_category is given
CategoryNames == {
    <<"r", "e", "d", "i", "s">>,   \* "redis"
    <<"p", "l", "a", "y", "w", "r", "i", "g", "h", "t">>,   \* "playwright"
    <<"x">>,   \* "x"
    <<"y">>,   \* "y"
    <<"f", "e", "t", "c", "h">>,   \* "fetch"
    <<"G", "i", "t", "H", "u", "b">>,   \* "GitHub"
    <<"m", "y", "-", "s", "e", "r", "v", "e", "r">>,   \* "my-server"
    <<"P", "l", "a", "n", "n", "e", "r">>    \* "Planner"
}

\* the descriptions _detect_category is given
CategoryDescriptions == {
    <<>>,   \* ""
    <<"R", "e", "d", "i", "s", " ", "c", "a", "c", "h", "e">>,   \* "Redis cache"
    <<"B", "r", "o", "w", "s", "e", "r", " ", "a", "u", "t", "o", "m", "a", "t", "i", "o", "n">>,   \* "Browser automation"
    <<"A", "P", "I", " ", "d", "o", "c", "s">>,   \* "API docs"
    <<"G", "i", "t", "H", "u", "b", " ", "A", "P", "I">>,   \* "GitHub API"
    <<"S", "h", "e", "l", "l", " ", "a", "c", "c", "e", "s", "s">>,   \* "Shell access"
    <<"s", "a", "m", "p", "l", "e", " ", "s", "e", "r", "v", "e", "r">>,   \* "sample server"
    <<"R", "u", "n", "s", " ", "S", "Q", "L", "i", "t", "e">>,   \* "Runs SQLite"
    <<"t", "h", "i", "n", "k", "i", "n", "g", " ", "a", "i", "d">>,   \* "thinking aid"
    <<"H", "T", "T", "P">>,   \* "HTTP"
    <<"R", "E", "A", "D", "M", "E">>,   \* "README"
    <<"a", " ", "p", "r", "o", "f", "i", "l", "e", " ", "s", "t", "o", "r", "e">>,   \* "a profile store"
    <<"C", "u", "r", "l", " ", "w", "r", "a", "p", "p", "e", "r">>,   \* "Curl wrapper"
    <<"R", "e", "a", "s", "o", "n", "i", "n", "g">>    \* "Reasoning"
}

DetectCategory ==
    /\ result.op = "none"
    /\ \E server_name \in CategoryNames, description \in CategoryDescriptions :
          result' = [op |-> "detect_category", seq |-> NextSeq,
                     server_name |-> server_name, description |-> description,
                     category |-> detect_category(server_name, description)]
    /\ UNCHANGED <<orchVars, now, active_servers, server_tools_cache, events,
                   enabled, usage, regVars, monVars, taskVars>>

\* a server name as Python text
NameText(server_name) == IF server_name = "x" THEN <<"x">> ELSE <<"y">>

\* the description "server inspect" prints for a server
InspectDescription(server_name) ==
    IF server_name = "x"
    THEN <<"s", "a", "m", "p", "l", "e", " ", "s", "e", "r", "v", "e", "r">>   \* "sample server"
    ELSE <<"B", "r", "o", "w", "s", "e", "r", " ", "a", "u", "t", "o", "m", "a", "t", "i", "o", "n">>   \* "Browser automation"

\* what "server inspect" does: it fails, or prints one of these JSON objects
\* (D is the server's description):
\*   "ok"                     {"description": D}
\*   "null_description"       {"description": null}
\*   "auth_object"            {"description": D, "auth": {"type": "token"}}
\*   "auth_null"              {"description": D, "auth": null}
\*   "authentication_method"  {"description": D, "auth": {},
\*                             "authentication": {"method": "basic"}}
\*   "known_name"             {"description": D, "name": "github"}
\*   "object_name"            {"description": D, "name": {}}
InspectOutcomes == {"ok", "failed", "null_description", "auth_object", "auth_null",
                    "authentication_method", "known_name", "object_name"}

\* the outcomes in which "server inspect" printed the server's description
Described == InspectOutcomes \ {"failed", "null_description"}

\* the outcomes for which _get_server_metadata raises: None has no lower(),
\* and an object cannot be looked up in a dict
Raising == {"null_description", "object_name"}

\* JSON values other than the description: null, a string, an object
JNull == [kind |-> "null"]
JString(text) == [kind |-> "string", value |-> text]
JObject(dict) == [kind |-> "object", value |-> dict]

\* Python's "a or b": a when it is true (not None, "" or {}), else b
Or(a, b) ==
    IF CASE a.kind = "null" -> FALSE
         [] a.kind = "string" -> a.value # ""
         [] a.kind = "object" -> DOMAIN a.value # {}
    THEN a ELSE b

\* dict.get(key), None when the key is missing
Get(dict, key) == IF key \in DOMAIN dict THEN dict[key] ELSE JNull


\* how the backend answers the three commands run for one server
DiscoveryOutcomes == [status_ok : BOOLEAN, inspect : InspectOutcomes, tools_ok : BOOLEAN]

\* the backend answers every per-server command, except that "server ls" may
\* fail for all servers alike
UniformOutcomes(status_ok) ==
    [server_name \in Servers |->
        [status_ok |-> status_ok, inspect |-> "ok", tools_ok |-> TRUE]]

\* ServerDiscovery._list_servers: the names "server ls" prints, [] when it fails
list_servers(ls_ok, listed) == IF ls_ok THEN listed ELSE {}

\* ServerDiscovery._get_server_status: "unknown" when "server ls" fails
get_server_status(server_name, status_ok) ==
    IF ~status_ok THEN "unknown"
    ELSE IF server_name \in enabled THEN "enabled" ELSE "disabled"

\* ServerDiscovery._inspect_server: the parsed JSON object, {} when the command
\* fails; an Optional[str] is a list of at most one string
inspect_server(server_name, outcome) ==
    LET described == DictSet(EmptyDict, "description", <<InspectDescription(server_name)>>)
    IN  CASE outcome = "ok" -> described
          [] outcome = "null_description" -> DictSet(EmptyDict, "description", <<>>)
          [] outcome = "auth_object" ->
                DictSet(described, "auth",
                        JObject(DictSet(EmptyDict, "type", JString("token"))))
          [] outcome = "auth_null" -> DictSet(described, "auth", JNull)
          [] outcome = "authentication_method" ->
                DictSet(DictSet(described, "auth", JObject(EmptyDict)),
                        "authentication",
                        JObject(DictSet(EmptyDict, "method", JString("basic"))))
          [] outcome = "known_name" -> DictSet(described, "name", JString("github"))
          [] outcome = "object_name" -> DictSet(described, "name", JObject(EmptyDict))
          [] OTHER -> EmptyDict

\* ServerDiscovery._get_tool_count: 0 when "tools list" fails
get_tool_count(server_name, tools_ok) ==
    IF tools_ok THEN Len(BackendTools(server_name)) ELSE 0

\* _check_auth_requirements, lines 221-224
KNOWN_AUTH_SERVERS == DictSet(DictSet(EmptyDict, "github", "oauth"), "gitlab", "oauth")

\* ServerDiscovery._check_auth_requirements: (requires_auth, auth_type), or a
\* TypeError when the name is an object, which "in" cannot hash
check_auth_requirements(inspect_data) ==
    IF "auth" \in DOMAIN inspect_data \/ "authentication" \in DOMAIN inspect_data
    THEN LET auth_info == Or(Get(inspect_data, "auth"),
                             Get(inspect_data, "authentication"))
             auth_type == Or(Get(auth_info.value, "type"),
                             Get(auth_info.value, "method"))
         IN  IF auth_info.kind = "object"
             THEN [raised |-> FALSE, requires_auth |-> TRUE,
                   \* a string or None as an Optional[str]
                   auth_type |-> IF auth_type.kind = "null" THEN <<>>
                                 ELSE <<auth_type.value>>]
             ELSE [raised |-> FALSE, requires_auth |-> TRUE,
                   auth_type |-> <<"oauth">>]
    ELSE LET name == Get(inspect_data, "name")
         IN  IF name.kind = "object"
             THEN [raised |-> TRUE, requires_auth |-> FALSE, auth_type |-> <<>>]
             ELSE IF name.kind = "string" /\ name.value \in DOMAIN KNOWN_AUTH_SERVERS
             THEN [raised |-> FALSE, requires_auth |-> TRUE,
                   auth_type |-> <<KNOWN_AUTH_SERVERS[name.value]>>]
             ELSE [raised |-> FALSE, requires_auth |-> FALSE, auth_type |-> <<>>]

\* ServerMetadata(name=server_name, status="unknown"), the other fields default
MinimalMetadata(server_name) ==
    [name |-> server_name, description |-> <<>>, category |-> "other",
     tool_count |-> 0, requires_auth |-> FALSE, auth_type |-> <<>>,
     status |-> "unknown", last_discovered |-> <<>>, config_override |-> FALSE]

\* ServerDiscovery._get_server_metadata: it raises when the description handed
\* to _detect_category is None (None has no lower()) and when
\* _check_auth_requirements raises
get_server_metadata(server_name, o) ==
    LET status       == get_server_status(server_name, o.status_ok)
        inspect_data == inspect_server(server_name, o.inspect)
        tool_count   == get_tool_count(server_name, o.tools_ok)
        \* inspect_data.get("description", "")
        for_category == IF "description" \in DOMAIN inspect_data
                        THEN inspect_data["description"] ELSE <<(<<>>)>>
        auth         == check_auth_requirements(inspect_data)
    IN  IF for_category = <<>> \/ auth.raised
        THEN [raised |-> TRUE, metadata |-> MinimalMetadata(server_name)]
        ELSE [raised |-> FALSE,
              metadata |->
                [name |-> server_name,
                 \* inspect_data.get("description")
                 description |-> IF "description" \in DOMAIN inspect_data
                                 THEN inspect_data["description"] ELSE <<>>,
                 category |-> detect_category(NameText(server_name), for_category[1]),
                 tool_count |-> tool_count,
                 requires_auth |-> auth.requires_auth,
                 auth_type |-> auth.auth_type,
                 status |-> status,
                 last_discovered |-> <<now>>,
                 config_override |-> FALSE]]

\* a discovery that leaves out a server whose metadata could not be built
discover_all_servers_dropping(ls_ok, listed, outcomes) ==
    [n \in {m \in list_servers(ls_ok, listed) :
               ~get_server_metadata(m, outcomes[m]).raised} |->
        get_server_metadata(n, outcomes[n]).metadata]

\* ServerDiscovery.discover_all_servers: one ServerMetadata per listed name, the
\* minimal one when _get_server_metadata raised
discover_all_servers(ls_ok, listed, outcomes) ==
    [n \in list_servers(ls_ok, listed) |->
        LET got == get_server_metadata(n, outcomes[n])
        IN  IF got.raised THEN MinimalMetadata(n) ELSE got.metadata]

\* discover_all_servers(), once
DiscoverAll ==
    /\ result.op = "none"
    /\ \E ls_ok \in BOOLEAN, listed \in SUBSET Servers,
          outcomes \in [Servers -> DiscoveryOutcomes] :
            result' = [op |-> "discover_all", seq |-> NextSeq, ls_ok |-> ls_ok,
                       listed |-> listed, outcomes |-> outcomes, at |-> now,
                       returned |-> discover_all_servers(ls_ok, listed, outcomes)]
    /\ UNCHANGED <<orchVars, now, active_servers, server_tools_cache, events,
                   enabled, usage, regVars, monVars, taskVars>>

----------------------------------------------------------------------------
(* mcp_orchestrator: ServerRegistry over ServerDiscovery.  refresh awaits    *)
(* coroutines that run the CLI with subprocess.run, so it is a single step.  *)

discovery_interval == 300   \* timedelta(minutes=5), in seconds

\* ServerRegistry.config_overrides, read once from config/servers.json
config_overrides == DictSet(EmptyDict, "x", [category |-> "database"])

\* refresh, lines 65-72: overrides are applied to what was discovered
ApplyOverrides(discovered) ==
    [n \in DOMAIN discovered |->
        IF n \in DOMAIN config_overrides
        THEN [discovered[n] EXCEPT !.category = config_overrides[n].category,
                                   !.config_override = TRUE]
        ELSE discovered[n]]

\* a refresh that never looks at the time of the last discovery
DebouncedNever(force) == FALSE

\* the debounce test with <= in place of <
DebouncedInclusive(force) ==
    /\ ~force
    /\ registry.last_discovery # <<>>
    /\ now - registry.last_discovery[1] <= discovery_interval

\* refresh, lines 54-55: not forced and the last discovery is recent
Debounced(force) ==
    /\ ~force
    /\ registry.last_discovery # <<>>
    /\ now - registry.last_discovery[1] < discovery_interval

\* a refresh that keeps the catalog it has when the inventory listing fails
refresh_retaining(force, ls_ok, listed, status_ok) ==
    IF Debounced(force)
    THEN /\ refreshed' = [refreshed EXCEPT !.seq = 1 - @, !.force = force,
                                           !.ran = FALSE,
                                           !.returned = registry.servers]
         /\ UNCHANGED registry
    ELSE /\ refreshed.calls < MaxDiscoveries
         /\ registry' = [servers |-> IF ls_ok
                                     THEN ApplyOverrides(
                                            discover_all_servers(ls_ok, listed,
                                                UniformOutcomes(status_ok)))
                                     ELSE registry.servers,
                         last_discovery |-> <<now>>]
         /\ refreshed' = [seq |-> 1 - refreshed.seq, force |-> force, ran |-> TRUE,
                          returned |-> registry'.servers,
                          calls |-> refreshed.calls + 1,
                          last_ok |-> IF ls_ok THEN <<now>> ELSE refreshed.last_ok,
                          ls_ok |-> ls_ok]

\* ServerRegistry.refresh(force); the ghost record `refreshed` keeps what the
\* call did and whether the inventory listing of the last discovery worked
refresh(force, ls_ok, listed, status_ok) ==
    IF Debounced(force)
    THEN /\ refreshed' = [refreshed EXCEPT !.seq = 1 - @, !.force = force,
                                           !.ran = FALSE,
                                           !.returned = registry.servers]
         /\ UNCHANGED registry
    ELSE /\ refreshed.calls < MaxDiscoveries
         /\ registry' = [servers |-> ApplyOverrides(
                                        discover_all_servers(ls_ok, listed,
                                                             UniformOutcomes(status_ok))),
                         last_discovery |-> <<now>>]
         /\ refreshed' = [seq |-> 1 - refreshed.seq, force |-> force, ran |-> TRUE,
                          returned |-> registry'.servers,
                          calls |-> refreshed.calls + 1,
                          last_ok |-> IF ls_ok THEN <<now>> ELSE refreshed.last_ok,
                          ls_ok |-> ls_ok]

Refresh ==
    /\ \E force \in BOOLEAN, ls_ok \in BOOLEAN, listed \in SUBSET Servers,
          status_ok \in BOOLEAN :
            refresh(force, ls_ok, listed, status_ok)
    /\ UNCHANGED <<orchVars, now, coordVars, monVars, taskVars>>

\* a task calls registry.refresh(force=False): the coroutine is scheduled and
\* has not started yet
IssueRefresh(p) ==
    /\ task[p].pc = "idle"
    /\ task' = [task EXCEPT ![p] = [IdleTask EXCEPT !.op = "refresh",
                                                  !.pc = "issued", !.age = now]]
    /\ UNCHANGED <<tool_to_server, server_tools, server_info, lock,
                   docker_enabled, hist, now, coordVars, regVars, monVars, taskVars>>

\* the event loop runs a scheduled refresh(force=False).  Every await of
\* refresh and of discover_all_servers is on a coroutine of ServerDiscovery
\* that runs the CLI with subprocess.run and never yields to the event loop, so
\* the call runs from its first line to its return in one step.
RunRefresh(p) ==
    /\ task[p].op = "refresh"
    /\ task[p].pc = "issued"
    /\ \E ls_ok \in BOOLEAN, listed \in SUBSET Servers, status_ok \in BOOLEAN :
          refresh(FALSE, ls_ok, listed, status_ok)
    /\ task' = [task EXCEPT ![p] = IdleTask]
    /\ UNCHANGED <<tool_to_server, server_tools, server_info, lock,
                   docker_enabled, hist, now, coordVars, monVars, taskVars>>

\* somebody enables or disables a server in the backend
BackendToggle ==
    /\ \E s \in Servers :
          enabled' = IF s \in enabled THEN enabled \ {s} ELSE enabled \cup {s}
    /\ UNCHANGED <<orchVars, now, active_servers, server_tools_cache, events,
                   usage, result, regVars, monVars, taskVars>>

RegTick ==
    /\ now + RegStep <= RegMaxTime
    /\ now' = now + RegStep
    /\ UNCHANGED <<orchVars, coordVars, regVars, monVars, taskVars>>

\* ServerRegistry.__init__; an Optional[datetime] is a list of at most one time
RegistryNew ==
    /\ registry = [servers |-> EmptyDict, last_discovery |-> <<>>]
    /\ refreshed = [seq |-> 0, force |-> FALSE, ran |-> FALSE,
                    returned |-> EmptyDict, calls |-> 0, last_ok |-> <<>>,
                    ls_ok |-> TRUE]

----------------------------------------------------------------------------
(* mcp_orchestrator: sync_state *)

\* get_enabled_servers: the first word of every row "server ls" prints,
\* whatever status the row shows; [] when the command fails.  `listed` are the
\* servers the command has a row for.
get_enabled_servers(en_ok, listed) == IF en_ok THEN listed ELSE {}

\* sync_state, lines 811-813: tools are fetched for active servers that have no
\* cache entry; tools_ok are the servers whose "tools list" succeeds
FetchMissing(cache, active, tools_ok) ==
    [s \in DOMAIN cache \cup active |->
        IF s \in DOMAIN cache THEN cache[s]
        ELSE get_server_tools(s, IF s \in tools_ok THEN "ok" ELSE "failed")]

\* a sync that leaves the entries of inactive servers in the tool cache
PurgeNothing(cache, active) == cache

\* sync_state, lines 815-817: entries of servers that are not active are deleted
PurgeInactive(cache, active) == [s \in DOMAIN cache \cap active |-> cache[s]]

\* sync_state(): registry.refresh(force=True), then the active set becomes
\* set(get_enabled_servers()) & known and the tool cache follows it.  Every
\* "server ls" of one call prints rows for the servers `listed`.
sync_state(ls_ok, listed, status_ok, en_ok, tools_ok) ==
    /\ refresh(TRUE, ls_ok, listed, status_ok)
    /\ \E active \in {get_enabled_servers(en_ok, listed)
                        \cap DOMAIN registry'.servers} :
          /\ active_servers' = active
          /\ server_tools_cache' =
                PurgeInactive(FetchMissing(server_tools_cache, active, tools_ok), active)
          /\ result' = [op |-> "sync", seq |-> NextSeq, ls_ok |-> ls_ok,
                        en_ok |-> en_ok, listed |-> listed, reported |-> enabled,
                        fetched |-> active \ DOMAIN server_tools_cache,
                        tools_ok |-> tools_ok,
                        added |-> active \ active_servers,
                        removed |-> active_servers \ active]
    /\ UNCHANGED <<events, enabled, usage>>

\* sync_state() with the status probes answering and the tool listing working
\* for every server or for none
SyncState ==
    /\ \E ls_ok \in BOOLEAN, listed \in SUBSET Servers, en_ok \in BOOLEAN,
          tools_ok \in {{}, Servers} :
            sync_state(ls_ok, listed, TRUE, en_ok, tools_ok)
    /\ UNCHANGED <<orchVars, now, monVars, taskVars>>

\* initialize, lines 854-856: for every active server the tools are listed and
\* cached, and the activation is tracked
CacheAll(cache, active, tools_ok) ==
    [s \in DOMAIN cache \cup active |->
        IF s \in active
        THEN get_server_tools(s, IF s \in tools_ok THEN "ok" ELSE "failed")
        ELSE cache[s]]

TrackAll(u, active) ==
    [s \in DOMAIN u \cup active |->
        IF s \in active THEN track_activation(u, s)[s] ELSE u[s]]

\* initialize(): registry.refresh(force=True), then the active set becomes
\* enabled & known, with the tools of every active server cached
initialize(ls_ok, listed, status_ok, en_ok, tools_ok) ==
    /\ refresh(TRUE, ls_ok, listed, status_ok)
    /\ \E active \in {get_enabled_servers(en_ok, listed)
                        \cap DOMAIN registry'.servers} :
          /\ active_servers' = active
          /\ server_tools_cache' = CacheAll(server_tools_cache, active, tools_ok)
          /\ usage' = TrackAll(usage, active)
          /\ result' = [op |-> "initialize", seq |-> NextSeq, ls_ok |-> ls_ok,
                        en_ok |-> en_ok, listed |-> listed, reported |-> enabled,
                        tools_ok |-> tools_ok]
    /\ UNCHANGED <<events, enabled>>

\* main(): asyncio.run(initialize()) on the state the module constructed,
\* before mcp.run() serves any tool
\* (the status probes answer; the tool listing works for every server or for
\* none)
Initialize ==
    /\ result.op = "none"
    /\ active_servers = {}
    /\ server_tools_cache = EmptyDict
    /\ \E ls_ok \in BOOLEAN, listed \in SUBSET Servers, en_ok \in BOOLEAN,
          tools_ok \in {{}, Servers} :
            initialize(ls_ok, listed, TRUE, en_ok, tools_ok)
    /\ UNCHANGED <<orchVars, now, monVars, taskVars>>

----------------------------------------------------------------------------
(* mcp_orchestrator: UsageMonitor *)

idle_timeout_minutes == 10      \* UsageMonitor(idle_timeout_minutes=10)

\* UsageMonitor.track_tool_usage
track_tool_usage(u, server_name, tool_name) ==
    LET u1 == IF server_name \notin DOMAIN u
              THEN DictSet(u, server_name, [last_used |-> now, access_count |-> 0,
                                            tool_usage |-> EmptyDict])
              ELSE u
        tu == u1[server_name].tool_usage
    IN  [u1 EXCEPT ![server_name] =
            [last_used |-> now,
             access_count |-> u1[server_name].access_count + 1,
             tool_usage |-> DictSet(tu, tool_name,
                                    IF tool_name \in DOMAIN tu
                                    THEN tu[tool_name] + 1 ELSE 1)]]

\* the idle test with >= in place of >
recommend_deactivation_inclusive(active) ==
    {server \in active :
        IF server \in DOMAIN usage
        THEN now - usage[server].last_used >= idle_timeout
        ELSE TRUE}

\* a recommendation that only names servers without a record
recommend_deactivation_unused_only(active) ==
    {server \in active : server \notin DOMAIN usage}

\* UsageMonitor.recommend_deactivation(active_servers): the servers it returns
recommend_deactivation(active) ==
    {server \in active :
        IF server \in DOMAIN usage
        THEN now - usage[server].last_used > idle_timeout
        ELSE TRUE}

TrackActivation ==
    /\ \E s \in Servers : usage' = track_activation(usage, s)
    /\ UNCHANGED <<orchVars, now, active_servers, server_tools_cache, events,
                   enabled, result, regVars, monVars, taskVars>>

TrackToolUsage ==
    /\ \E s \in Servers, t \in Tools :
          /\ s \in DOMAIN usage => usage[s].access_count < MaxUses
          /\ usage' = track_tool_usage(usage, s, t)
    /\ UNCHANGED <<orchVars, now, active_servers, server_tools_cache, events,
                   enabled, result, regVars, monVars, taskVars>>

\* UsageMonitor.get_usage_stats
get_usage_stats(u) == [name \in DOMAIN u |-> u[name].access_count]

\* monitor.track_activation(server_name), the call recorded
TrackActivationCall ==
    /\ \E s \in Servers :
          /\ usage' = track_activation(usage, s)
          /\ result' = [op |-> "track_activation", seq |-> 1 - result.seq,
                        server |-> s, tool |-> "none"]
    /\ UNCHANGED <<orchVars, now, active_servers, server_tools_cache, events,
                   enabled, regVars, monVars, taskVars>>

\* monitor.track_tool_usage(server_name, tool_name), the call recorded
TrackToolUsageCall ==
    /\ \E s \in Servers, t \in Tools :
          /\ s \in DOMAIN usage => usage[s].access_count < MaxUses
          /\ usage' = track_tool_usage(usage, s, t)
          /\ result' = [op |-> "track_tool_usage", seq |-> 1 - result.seq,
                        server |-> s, tool |-> t]
    /\ UNCHANGED <<orchVars, now, active_servers, server_tools_cache, events,
                   enabled, regVars, monVars, taskVars>>

RecommendDeactivation ==
    /\ \E active \in SUBSET Servers :
          recommended' = [seq |-> 1 - recommended.seq, active |-> active,
                          at |-> now, servers |-> recommend_deactivation(active)]
    /\ UNCHANGED <<orchVars, now, coordVars, regVars, idle_timeout, taskVars>>

MonTick ==
    /\ now + MonStep <= MonMaxTime
    /\ now' = now + MonStep
    /\ UNCHANGED <<orchVars, coordVars, regVars, monVars, taskVars>>

\* monitor_usage(show_recommendations): the statistics and, when asked for,
\* the recommendations for the active servers; nothing is changed
MonitorUsage ==
    /\ \E show_recommendations \in BOOLEAN :
          result' = [op |-> "monitor_usage", seq |-> NextSeq,
                     stats |-> get_usage_stats(usage),
                     recommendations |->
                        IF show_recommendations
                        THEN recommend_deactivation(active_servers) ELSE {}]
    /\ UNCHANGED <<orchVars, now, active_servers, server_tools_cache, events,
                   enabled, usage, regVars, monVars, taskVars>>

\* optimize_servers(keep_active): deactivate_servers([server]) for each
\* recommended server that is not kept, one call after the other
optimize_servers(keep_active) ==
    \E list \in ListsOf(recommend_deactivation(active_servers) \ keep_active) :
    \E st \in DeactivateLoop(LoopStart, list, 1) :
        /\ active_servers' = st.active
        /\ server_tools_cache' = st.cache
        /\ enabled' = st.enabled
        /\ result' = [op |-> "optimize", seq |-> NextSeq,
                      keep_active |-> keep_active, recommended |-> Range(list),
                      deactivated |-> st.deactivated]
        /\ UNCHANGED <<events, usage>>

OptimizeServers ==
    /\ \E keep_active \in SUBSET Servers : optimize_servers(keep_active)
    /\ UNCHANGED <<orchVars, now, regVars, monVars, taskVars>>

\* UsageMonitor.__init__ with the default timeout
MonitorNew ==
    /\ idle_timeout = 60 * idle_timeout_minutes
    /\ recommended = [seq |-> 0, active |-> {}, at |-> 0, servers |-> {}]

----------------------------------------------------------------------------
(* mcp_orchestrator: server profiles (profiles.py) *)

\* SERVER_PROFILES: name, servers, auto_activate of each ServerProfile
SERVER_PROFILES ==
    [name \in {"web-development", "data-science", "documentation", "full-stack", "database", "browser-automation"} |->
        CASE name = "web-development" ->
               [name |-> "web-development", auto_activate |-> TRUE,
                servers |-> <<"playwright", "github", "context7", "fetch">>]
          [] name = "data-science" ->
               [name |-> "data-science", auto_activate |-> TRUE,
                servers |-> <<"postgres", "redis", "context7">>]
          [] name = "documentation" ->
               [name |-> "documentation", auto_activate |-> TRUE,
                servers |-> <<"context7">>]
          [] name = "full-stack" ->
               [name |-> "full-stack", auto_activate |-> FALSE,
                servers |-> <<"playwright", "github", "postgres", "redis", "context7", "fetch", "desktop-commander">>]
          [] name = "database" ->
               [name |-> "database", auto_activate |-> TRUE,
                servers |-> <<"postgres", "redis", "context7">>]
          [] name = "browser-automation" ->
               [name |-> "browser-automation", auto_activate |-> TRUE,
                servers |-> <<"playwright", "context7">>]
    ]

\* profile_keywords of find_matching_profile, in the order of the dict literal
profile_keywords == <<
    [profile_name |-> "web-development",
     keywords |-> <<
        <<"w", "e", "b">>,   \* "web"
        <<"w", "e", "b", "s", "i", "t", "e">>,   \* "website"
        <<"b", "r", "o", "w", "s", "e", "r">>,   \* "browser"
        <<"f", "r", "o", "n", "t", "e", "n", "d">>,   \* "frontend"
        <<"u", "i">>,   \* "ui"
        <<"h", "t", "m", "l">>,   \* "html"
        <<"c", "s", "s">>    \* "css"
     >>],
    [profile_name |-> "data-science",
     keywords |-> <<
        <<"d", "a", "t", "a">>,   \* "data"
        <<"a", "n", "a", "l", "y", "s", "i", "s">>,   \* "analysis"
        <<"d", "a", "t", "a", "b", "a", "s", "e">>,   \* "database"
        <<"s", "q", "l">>,   \* "sql"
        <<"q", "u", "e", "r", "y">>,   \* "query"
        <<"a", "n", "a", "l", "y", "t", "i", "c", "s">>    \* "analytics"
     >>],
    [profile_name |-> "documentation",
     keywords |-> <<
        <<"d", "o", "c", "u", "m", "e", "n", "t", "a", "t", "i", "o", "n">>,   \* "documentation"
        <<"d", "o", "c", "s">>,   \* "docs"
        <<"a", "p", "i">>,   \* "api"
        <<"r", "e", "f", "e", "r", "e", "n", "c", "e">>,   \* "reference"
        <<"l", "i", "b", "r", "a", "r", "y">>    \* "library"
     >>],
    [profile_name |-> "full-stack",
     keywords |-> <<
        <<"f", "u", "l", "l", " ", "s", "t", "a", "c", "k">>,   \* "full stack"
        <<"f", "u", "l", "l", "s", "t", "a", "c", "k">>,   \* "fullstack"
        <<"c", "o", "m", "p", "l", "e", "t", "e">>,   \* "complete"
        <<"a", "l", "l">>,   \* "all"
        <<"e", "v", "e", "r", "y", "t", "h", "i", "n", "g">>    \* "everything"
     >>],
    [profile_name |-> "database",
     keywords |-> <<
        <<"d", "a", "t", "a", "b", "a", "s", "e">>,   \* "database"
        <<"d", "b">>,   \* "db"
        <<"s", "q", "l">>,   \* "sql"
        <<"p", "o", "s", "t", "g", "r", "e", "s">>,   \* "postgres"
        <<"r", "e", "d", "i", "s">>,   \* "redis"
        <<"m", "y", "s", "q", "l">>    \* "mysql"
     >>],
    [profile_name |-> "browser-automation",
     keywords |-> <<
        <<"b", "r", "o", "w", "s", "e", "r">>,   \* "browser"
        <<"s", "c", "r", "a", "p", "i", "n", "g">>,   \* "scraping"
        <<"s", "c", "r", "e", "e", "n", "s", "h", "o", "t">>,   \* "screenshot"
        <<"a", "u", "t", "o", "m", "a", "t", "i", "o", "n">>,   \* "automation"
        <<"s", "e", "l", "e", "n", "i", "u", "m">>    \* "selenium"
     >>]
>>

\* the loop "for profile_name, keywords in profile_keywords.items()"; the
\* result is Optional[ServerProfile], a sequence of at most one profile
RECURSIVE ScanProfiles(_, _)
ScanProfiles(task_lower, i) ==
    IF i > Len(profile_keywords) THEN <<>>
    ELSE IF AnyKeyword(profile_keywords[i].keywords, task_lower)
         THEN IF profile_keywords[i].profile_name \in DOMAIN SERVER_PROFILES
              THEN <<SERVER_PROFILES[profile_keywords[i].profile_name]>>
              ELSE <<>>
         ELSE ScanProfiles(task_lower, i + 1)

\* find_matching_profile(task_description)
find_matching_profile(text) == ScanProfiles(Lower(text), 1)

\* the words task texts are made of
Words == {
    <<"w", "e", "b">>,   \* "web"
    <<"d", "e", "v", "e", "l", "o", "p", "m", "e", "n", "t">>,   \* "development"
    <<"t", "a", "s", "k">>,   \* "task"
    <<"f", "u", "l", "l">>,   \* "full"
    <<"s", "t", "a", "c", "k">>,   \* "stack"
    <<"e", "v", "e", "r", "y", "t", "h", "i", "n", "g">>,   \* "everything"
    <<"S", "Q", "L">>,   \* "SQL"
    <<"D", "o", "c", "s">>,   \* "Docs"
    <<"i", "n", "s", "t", "a", "l", "l">>,   \* "install"
    <<"b", "u", "i", "l", "d">>,   \* "build"
    <<"D", "B">>,   \* "DB"
    <<"S", "c", "r", "a", "p", "i", "n", "g">>,   \* "Scraping"
    <<"f", "i", "x">>,   \* "fix"
    <<"R", "e", "d", "i", "s">>    \* "Redis"
}

\* " ".join(ws)
RECURSIVE JoinWords(_)
JoinWords(ws) ==
    IF ws = <<>> THEN <<>>
    ELSE IF Len(ws) = 1 THEN ws[1]
    ELSE ws[1] \o <<" ">> \o JoinWords(Tail(ws))

\* the task texts: up to MaxWords words separated by single spaces
TaskTexts == {JoinWords(ws) : ws \in SeqsUpTo(Words, MaxWords)}

FindMatchingProfile ==
    /\ result.op = "none"
    /\ result' = [op |-> "find_matching_profile", seq |-> NextSeq,
                  task |-> task_description,
                  profile |-> find_matching_profile(task_description)]
    /\ UNCHANGED <<orchVars, now, active_servers, server_tools_cache, events,
                   enabled, usage, regVars, monVars, taskVars>>

----------------------------------------------------------------------------
(* mcp_orchestrator: task analysis (analyzer.py, router.py) and the          *)
(* activate_for_task / activate_profile handlers (server.py).  The router    *)
(* has no embedding model loaded and matches by keyword.                     *)

\* str.split() on single spaces
RECURSIVE Split(_, _, _)
Split(text, i, word) ==
    IF i > Len(text) THEN (IF word = <<>> THEN <<>> ELSE <<word>>)
    ELSE IF text[i] = " "
         THEN (IF word = <<>> THEN <<>> ELSE <<word>>) \o Split(text, i + 1, <<>>)
         ELSE Split(text, i + 1, Append(word, text[i]))

\* [e for e in list if keep(e)] for a set of kept elements
Filter(list, kept) ==
    LET F[i \in 0..Len(list)] ==
            IF i = 0 THEN <<>>
            ELSE IF list[i] \in kept THEN Append(F[i - 1], list[i]) ELSE F[i - 1]
    IN  F[Len(list)]

\* a keyword pass that matches nothing
keyword_analysis_none(text) == <<>>

\* EnhancedTaskAnalyzer._keyword_analysis
keyword_analysis(text) ==
    LET task_lower == Lower(text)
    IN  Filter(CatalogOrder,
               {name \in Range(CatalogOrder) :
                   \E k \in 1..Len(Capabilities[name].covers_technologies) :
                       Contains(Lower(Capabilities[name].covers_technologies[k]),
                                task_lower)})

\* SemanticRouter._keyword_match: the score of one server, in tenths
KeywordScore(name, task_lower) ==
    LET caps  == Capabilities[name]
        techs == Cardinality({k \in 1..Len(caps.covers_technologies) :
                                 Contains(Lower(caps.covers_technologies[k]), task_lower)})
        words == Split(Lower(caps.purpose), 1, <<>>)
        purp  == IF \E k \in 1..Len(words) : Contains(words[k], task_lower)
                 THEN 3 ELSE 0
    IN  5 * techs + purp

\* list.sort(key=score, reverse=True): stable, highest score first
RECURSIVE SortByScore(_)
SortByScore(matches) ==
    IF matches = <<>> THEN <<>>
    ELSE LET best == CHOOSE i \in 1..Len(matches) :
                        /\ \A j \in 1..Len(matches) : matches[j].score <= matches[i].score
                        /\ \A j \in 1..(i - 1) : matches[j].score < matches[i].score
         IN  <<matches[best]>> \o
             SortByScore(SubSeq(matches, 1, best - 1) \o
                         SubSeq(matches, best + 1, Len(matches)))

\* SemanticRouter.match_servers(task_description, top_k), keyword matching
match_servers(text, top_k) ==
    LET task_lower == Lower(text)
        scored == [i \in 1..Len(CatalogOrder) |->
                      [server |-> CatalogOrder[i],
                       score |-> KeywordScore(CatalogOrder[i], task_lower)]]
        hits == {i \in 1..Len(scored) : scored[i].score > 0}
        matches == LET M[i \in 0..Len(scored)] ==
                           IF i = 0 THEN <<>>
                           ELSE IF i \in hits
                                THEN Append(M[i - 1],
                                            [server |-> scored[i].server,
                                             score |-> IF scored[i].score > 10 THEN 10
                                                       ELSE scored[i].score])
                                ELSE M[i - 1]
                   IN  M[Len(scored)]
        sorted == SortByScore(matches)
    IN  SubSeq(sorted, 1, IF Len(sorted) < top_k THEN Len(sorted) ELSE top_k)

\* list(set(l)): the elements once each, in an order the hash seed decides
RECURSIVE ListsOfSet(_)
ListsOfSet(S) ==
    IF S = {} THEN {<<>>}
    ELSE UNION {{<<e>> \o q : q \in ListsOfSet(S \ {e})} : e \in S}

\* analyze_task, step 5: the loop "for server in all_servers"
RECURSIVE Recommend(_, _, _, _)
Recommend(all_servers, i, recommended_servers, text) ==
    IF i > Len(all_servers) THEN recommended_servers
    ELSE IF all_servers[i] \notin DOMAIN Capabilities
         THEN Recommend(all_servers, i + 1, recommended_servers, text)
         ELSE LET caps == Capabilities[all_servers[i]]
                  r1 == IF /\ caps.covers_technologies # <<>>
                           /\ "context7" \notin Range(all_servers)
                           /\ \E k \in 1..Len(caps.covers_technologies) :
                                 Contains(caps.covers_technologies[k], Lower(text))
                           /\ "context7" \notin Range(recommended_servers)
                        THEN Append(recommended_servers, "context7")
                        ELSE recommended_servers
                  RECURSIVE Related(_, _)
                  Related(k, acc) ==
                      IF k > Len(caps.related_servers) THEN acc
                      ELSE Related(k + 1,
                                   IF /\ caps.related_servers[k] \notin Range(all_servers)
                                      /\ caps.related_servers[k] \notin Range(acc)
                                   THEN Append(acc, caps.related_servers[k])
                                   ELSE acc)
              IN  Recommend(all_servers, i + 1, Related(1, r1), text)

\* EnhancedTaskAnalyzer._optimize_order
optimize_order(servers) ==
    Filter(servers, {"context7"}) \o Filter(servers, Range(servers) \ {"context7"})

\* the cosine similarities an embedding model can give, in tenths
SimilarityValues == {-3, 2, 9}

\* the similarity of every server of the index to the task text: any values
\* for a small catalog, one value for all servers of a larger one
SimilarityChoices ==
    IF Len(CatalogOrder) <= MaxEmbedded
    THEN [Range(CatalogOrder) -> SimilarityValues]
    ELSE {[name \in Range(CatalogOrder) |-> v] : v \in SimilarityValues}

\* SemanticRouter._semantic_match(task_description, top_k) with an embedding
\* model loaded: every server of the index, best similarity first
semantic_match(similarity, top_k) ==
    LET similarities == [i \in 1..Len(CatalogOrder) |->
                            [server |-> CatalogOrder[i],
                             score |-> similarity[CatalogOrder[i]]]]
        sorted == SortByScore(similarities)
    IN  SubSeq(sorted, 1, IF Len(sorted) < top_k THEN Len(sorted) ELSE top_k)

\* sum(score for _, score in semantic_matches), in tenths
RECURSIVE SumScores(_)
SumScores(matches) ==
    IF matches = <<>> THEN 0 ELSE Head(matches).score + SumScores(Tail(matches))

\* EnhancedTaskAnalyzer._calculate_confidence: the fraction num / den
calculate_confidence(required, semantic_matches) ==
    IF required = <<>> THEN [num |-> 0, den |-> 1]
    ELSE IF semantic_matches # <<>>
    THEN LET sum == SumScores(semantic_matches)
             n   == Len(semantic_matches)
         IN  IF sum > 10 * n THEN [num |-> 1, den |-> 1]
             ELSE [num |-> sum, den |-> 10 * n]
    ELSE [num |-> 7, den |-> 10]

\* EnhancedTaskAnalyzer.analyze_task after step 2, the router having returned
\* semantic_matches: every TaskAnalysis it can return
analyze_matched(text, semantic_matches) ==
    LET keyword_servers  == keyword_analysis(text)
        semantic_servers == Filter([i \in 1..Len(semantic_matches) |->
                                       semantic_matches[i].server],
                                   {semantic_matches[i].server :
                                       i \in 1..Len(semantic_matches)}
                                   \ Range(keyword_servers))
    IN  {LET recommended_servers == Recommend(all_servers, 1, <<>>, text)
         IN  [required_servers |-> all_servers,
              recommended_servers |-> recommended_servers,
              activation_order |-> optimize_order(all_servers \o recommended_servers),
              semantic_matches |-> semantic_matches,
              confidence |-> calculate_confidence(all_servers, semantic_matches)]
         : all_servers \in ListsOfSet(Range(keyword_servers \o semantic_servers))}

\* EnhancedTaskAnalyzer.analyze_task with a router that matches by keyword
analyze_task(text) == analyze_matched(text, match_servers(text, 5))

\* activate_profile(profile_name)
activate_profile(profile_name) ==
    IF profile_name \notin DOMAIN SERVER_PROFILES
    THEN /\ result' = [op |-> "activate_profile_error", seq |-> NextSeq,
                       profile |-> profile_name]
         /\ UNCHANGED <<active_servers, server_tools_cache, events, enabled, usage>>
    ELSE activate_servers(SERVER_PROFILES[profile_name].servers, TRUE)

\* activate_for_task: "if matching_profile and matching_profile.auto_activate"
TakesProfile(matching_profile) ==
    matching_profile # <<>> /\ matching_profile[1].auto_activate

\* activate_for_task(task_description, auto_activate_deps, use_profiles)
activate_for_task(text, auto_activate_deps, use_profiles) ==
    \E matching_profile \in {IF use_profiles THEN find_matching_profile(text) ELSE <<>>} :
        IF use_profiles /\ TakesProfile(matching_profile)
        THEN /\ activate_profile(matching_profile[1].name)
             /\ analysis' = <<>>
        ELSE \E an \in analyze_task(text) :
                /\ analysis' = <<an>>
                /\ IF an.required_servers = <<>> /\ an.recommended_servers = <<>>
                   THEN /\ result' = [op |-> "activate_for_task_error", seq |-> NextSeq]
                        /\ UNCHANGED <<active_servers, server_tools_cache, events,
                                       enabled, usage>>
                   ELSE activate_servers(an.activation_order, auto_activate_deps)

ActivateForTask ==
    /\ activate_for_task(task_description, task_options.auto_activate_deps,
                         task_options.use_profiles)
    /\ UNCHANGED <<orchVars, now, regVars, monVars, task_description, task_options,
                   config_path>>

\* the task texts activate_for_task is given
TaskSamples == {
    <<"d", "o", "c", "s">>,   \* "docs"
    <<"D", "o", "c", "s", " ", "S", "Q", "L">>,   \* "Docs SQL"
    <<"s", "t", "o", "r", "e">>,   \* "store"
    <<"f", "i", "x">>,   \* "fix"
    <<"f", "u", "l", "l", " ", "s", "t", "a", "c", "k", " ", "e", "v", "e", "r", "y", "t", "h", "i", "n", "g">>,   \* "full stack everything"
    <<"s", "q", "l", " ", "s", "t", "o", "r", "e">>    \* "sql store"
}

\* the task texts analyze_task is given
AnalyzeSamples == {
    <<"q", "u", "e", "r", "y", " ", "t", "h", "e", " ", "d", "a", "t", "a", "b", "a", "s", "e", " ", "a", "n", "d", " ", "c", "a", "c", "h", "e", " ", "r", "e", "s", "u", "l", "t", "s">>,   \* "query the database and cache results"
    <<"g", "i", "t", " ", "h", "t", "t", "p", " ", "f", "i", "l", "e", " ", "b", "r", "o", "w", "s", "e", "r", " ", "s", "q", "l", " ", "p", "l", "a", "n", "n", "i", "n", "g">>,   \* "git http file browser sql planning"
    <<"D", "o", "c", "s", " ", "S", "Q", "L">>,   \* "Docs SQL"
    <<"s", "t", "o", "r", "e">>,   \* "store"
    <<"f", "i", "x">>,   \* "fix"
    <<"s", "q", "l", " ", "s", "t", "o", "r", "e">>,   \* "sql store"
    <<"R", "e", "d", "i", "s", " ", "c", "a", "c", "h", "i", "n", "g">>    \* "Redis caching"
}

\* task_analyzer.analyze_task(task_description), once
AnalyzeTask ==
    /\ analysis = <<>>
    /\ \E an \in analyze_task(task_description) : analysis' = <<an>>
    /\ UNCHANGED <<orchVars, now, coordVars, regVars, monVars, task_description,
                   task_options, config_path>>

\* task_analyzer.analyze_task(task_description), once, the router having an
\* embedding model and an index of the catalog
AnalyzeTaskEmbedded ==
    /\ analysis = <<>>
    /\ CatalogOrder # <<>>
    /\ \E similarity \in SimilarityChoices :
       \E an \in analyze_matched(task_description, semantic_match(similarity, 5)) :
          /\ analysis' = <<an>>
          /\ result' = [op |-> "embedding_scorer", seq |-> NextSeq,
                        similarity |-> similarity]
    /\ UNCHANGED <<orchVars, now, active_servers, server_tools_cache, events,
                   enabled, usage, regVars, monVars, task_description,
                   task_options, config_path>>

----------------------------------------------------------------------------
(* orchestrator: the start_servers and stop_servers tool handlers
   (tools/servers/start.py, stop.py).  Each handler issues ONE backend command
   for the whole list, "docker mcp server enable s1 s2 ..." or "... disable
   s1 s2 ...", and awaits it; start_servers then awaits the tool list of one
   server after another.  A handler is one task; each action below is the
   code the task runs between two awaits, and task[p].locals holds the
   handler's local variables while it is suspended.  `refused` is the set of
   servers the backend refuses: a command naming one of them returns a
   non-zero code, and what it did for the other servers it names before
   failing is the backend's choice. *)

\* client p's task when it calls a handler, and when the handler returned
BatchCall(p) == [IdleTask EXCEPT !.calls = task[p].calls + 1]
BatchDone(p) == [IdleTask EXCEPT !.calls = task[p].calls]

\* cache.get_server_tools(server, fetch_tools) for one server: an exception,
\* an empty list, or the tools the backend lists for it.  ParseError stands
\* for every exception that is neither of the other two.
FetchOutcomes(server) ==
    {[error |-> <<e>>, tools |-> <<>>] :
        e \in {"ServerNotFoundError", "CommandError", "ParseError"}}
    \cup {[error |-> <<>>, tools |-> <<>>],
          [error |-> <<>>, tools |-> BackendTools(server)]}

\* start.py, the three except clauses: the text put before str(e)
FetchErrorText(e) ==
    CASE e = "ServerNotFoundError" -> "Server not found"
      [] e = "CommandError" -> "Command error"
      [] OTHER -> "Unexpected error"

\* start.py, one pass of "for server in servers:" after cache.get_server_tools
\* answered — register the server when it reports tools, record an error
\* otherwise
StartIteration(st, server, got) ==
    IF got.error # <<>>
    THEN [st EXCEPT !.errors = DictSet(@, server, FetchErrorText(got.error[1]))]
    ELSE IF got.tools # <<>>
    THEN [st EXCEPT
            !.server_tools = DictSet(@, server, got.tools),
            !.tool_to_server = MapTools(@, server, got.tools),
            !.hist = Remember(@, [op |-> "register", server |-> server]),
            !.successful_servers = Append(@, server)]
    ELSE [st EXCEPT !.errors =
            DictSet(@, server, "No tools found or server not responding")]

\* start.py: "status": "success" if successful_servers else "partial"
start_status(successful_servers, errors) ==
    IF successful_servers # <<>> THEN "success" ELSE "partial"

\* the dictionary start_servers returns with status "error"
StartError(servers, refused) ==
    [op |-> "start_servers", seq |-> NextSeq, requested |-> servers,
     refused |-> refused, fetched |-> EmptyDict, status |-> "error",
     servers |-> <<>>, errors |-> <<>>]

\* start_servers.handle_tool(arguments, ...) up to its first await: an empty
\* list is answered at once, otherwise the enable command is issued
StartServers(p) ==
    /\ task[p].pc = "idle"
    /\ task[p].calls < MaxBatchCalls
    /\ \E servers \in BatchLists :
          IF servers = <<>>
          THEN /\ result' = StartError(servers, {})
               /\ task' = [task EXCEPT ![p] = BatchCall(p)]
          ELSE /\ task' = [task EXCEPT ![p] =
                             [BatchCall(p) EXCEPT
                                !.op = "start_servers", !.pc = "enable",
                                !.locals = <<[servers |-> servers,
                                              remaining |-> servers,
                                              successful_servers |-> <<>>,
                                              errors |-> EmptyDict,
                                              fetched |-> EmptyDict]>>]]
               /\ UNCHANGED result
    /\ UNCHANGED <<proxyVars, server_info, lock, docker_enabled, now, hist,
                   active_servers, server_tools_cache, events, enabled, usage,
                   regVars, monVars, taskVars>>

\* start.py 68-99: docker_client.enable_servers answered; on an exception the
\* handler returns, otherwise it asks for the tools of the first server
EnableReturn(p) ==
    /\ task[p].op = "start_servers"
    /\ task[p].pc = "enable"
    /\ LET servers == task[p].locals[1].servers
           names   == Range(servers)
       IN  \E refused \in SUBSET names :
              IF refused # {}
              THEN /\ \E done \in SUBSET (names \ refused) :
                         docker_enabled' = docker_enabled \cup done
                   /\ result' = StartError(servers, refused)
                   /\ task' = [task EXCEPT ![p] = BatchDone(p)]
              ELSE /\ docker_enabled' = docker_enabled \cup names
                   /\ task' = [task EXCEPT ![p].pc = "fetch"]
                   /\ UNCHANGED result
    /\ UNCHANGED <<proxyVars, server_info, lock, now, hist, active_servers,
                   server_tools_cache, events, enabled, usage, regVars,
                   monVars, taskVars>>

\* start.py 121-141: the dictionary start_servers returns after its loop
StartResult(l) ==
    [op |-> "start_servers", seq |-> NextSeq,
     requested |-> l.servers, refused |-> {}, fetched |-> l.fetched,
     status |-> start_status(l.successful_servers, l.errors),
     servers |-> l.successful_servers,
     errors |-> IF l.errors = EmptyDict THEN <<>> ELSE <<l.errors>>]

\* start.py 99-119: cache.get_server_tools answered for the next server; the
\* handler registers it or records its error and asks for the tools of the
\* following server.  After the last one it awaits
\* prompt_manager.get_prompts_for_servers: a prompt manager that answers
\* without suspending lets the handler build its result and return in this
\* step, one that suspends leaves the handler waiting for it (the prompts
\* themselves are not part of the model).
FetchReturn(p) ==
    /\ task[p].op = "start_servers"
    /\ task[p].pc = "fetch"
    /\ LET l      == task[p].locals[1]
           server == Head(l.remaining)
       IN  \E got \in FetchOutcomes(server), suspends \in BOOLEAN :
              LET st == StartIteration(
                            [server_tools |-> server_tools,
                             tool_to_server |-> tool_to_server,
                             hist |-> hist,
                             successful_servers |-> l.successful_servers,
                             errors |-> l.errors],
                            server, got)
                  after == [l EXCEPT
                              !.remaining = Tail(@),
                              !.successful_servers = st.successful_servers,
                              !.errors = st.errors,
                              !.fetched = DictSet(@, server, got)]
              IN  /\ server_tools' = st.server_tools
                  /\ tool_to_server' = st.tool_to_server
                  /\ hist' = st.hist
                  /\ IF after.remaining # <<>>
                     THEN /\ ~suspends
                          /\ task' = [task EXCEPT ![p].locals = <<after>>]
                          /\ UNCHANGED result
                     ELSE IF suspends
                     THEN /\ task' = [task EXCEPT ![p].pc = "prompts",
                                                  ![p].locals = <<after>>]
                          /\ UNCHANGED result
                     ELSE /\ result' = StartResult(after)
                          /\ task' = [task EXCEPT ![p] = BatchDone(p)]
    /\ UNCHANGED <<server_info, lock, docker_enabled, now, active_servers,
                   server_tools_cache, events, enabled, usage, regVars,
                   monVars, taskVars>>

\* start.py 119-141: prompt_manager.get_prompts_for_servers answered; the
\* handler builds its result and returns
PromptsReturn(p) ==
    /\ task[p].op = "start_servers"
    /\ task[p].pc = "prompts"
    /\ result' = StartResult(task[p].locals[1])
    /\ task' = [task EXCEPT ![p] = BatchDone(p)]
    /\ UNCHANGED <<proxyVars, server_info, lock, docker_enabled, now, hist,
                   active_servers, server_tools_cache, events, enabled, usage,
                   regVars, monVars, taskVars>>

\* stop.py, "for server in servers: proxy.unregister_server(server)"
RECURSIVE UnregisterAll(_, _)
UnregisterAll(st, servers) ==
    IF servers = <<>> THEN st
    ELSE LET server == Head(servers)
             popped ==
                 IF server \in DOMAIN st.server_tools
                 THEN [st EXCEPT
                         !.tool_to_server = PopTools(@, st.server_tools[server]),
                         !.server_tools = DictPop(@, server)]
                 ELSE st
         IN  UnregisterAll(
                 [popped EXCEPT !.hist =
                     Remember(@, [op |-> "unregister", server |-> server])],
                 Tail(servers))

\* stop_servers.handle_tool(arguments, ...) up to its await: an empty list is
\* answered at once, otherwise the servers are unregistered and the disable
\* command is issued.  locals.had records the tool lists registered for the
\* servers when the handler was called.
StopServers(p) ==
    /\ task[p].pc = "idle"
    /\ task[p].calls < MaxBatchCalls
    /\ \E servers \in BatchLists :
          IF servers = <<>>
          THEN /\ result' = [op |-> "stop_servers", seq |-> NextSeq,
                             requested |-> servers, refused |-> {},
                             status |-> "error", servers |-> <<>>,
                             errors |-> <<>>, had |-> EmptyDict]
               /\ task' = [task EXCEPT ![p] = BatchCall(p)]
               /\ UNCHANGED <<proxyVars, hist>>
          ELSE LET st == UnregisterAll([server_tools |-> server_tools,
                                        tool_to_server |-> tool_to_server,
                                        hist |-> hist], servers)
               IN  /\ server_tools' = st.server_tools
                   /\ tool_to_server' = st.tool_to_server
                   /\ hist' = st.hist
                   /\ task' = [task EXCEPT ![p] =
                                 [BatchCall(p) EXCEPT
                                    !.op = "stop_servers", !.pc = "disable",
                                    !.locals =
                                      <<[servers |-> servers,
                                         had |-> [s \in Range(servers)
                                                        \cap DOMAIN server_tools |->
                                                     server_tools[s]]]>>]]
                   /\ UNCHANGED result
    /\ UNCHANGED <<server_info, lock, docker_enabled, now, active_servers,
                   server_tools_cache, events, enabled, usage, regVars,
                   monVars, taskVars>>

\* stop.py 60-75: docker_client.disable_servers answered and the handler
\* returns
DisableReturn(p) ==
    /\ task[p].op = "stop_servers"
    /\ task[p].pc = "disable"
    /\ LET l     == task[p].locals[1]
           names == Range(l.servers)
       IN  \E refused \in SUBSET names :
              /\ IF refused # {}
                 THEN \E done \in SUBSET (names \ refused) :
                          docker_enabled' = docker_enabled \ done
                 ELSE docker_enabled' = docker_enabled \ names
              /\ result' = [op |-> "stop_servers", seq |-> NextSeq,
                            requested |-> l.servers, refused |-> refused,
                            status |-> IF refused # {} THEN "error" ELSE "success",
                            servers |-> l.servers, errors |-> <<>>,
                            had |-> l.had]
    /\ task' = [task EXCEPT ![p] = BatchDone(p)]
    /\ UNCHANGED <<proxyVars, server_info, lock, now, hist, active_servers,
                   server_tools_cache, events, enabled, usage, regVars,
                   monVars, taskVars>>

\* no activate_for_task call yet: the default flags, no analysis made
TaskIdle ==
    /\ task_options = [auto_activate_deps |-> TRUE, use_profiles |-> TRUE]
    /\ config_path = "base"
    /\ analysis = <<>>

NoResult == [op |-> "none", seq |-> 0]

CoordIdle ==
    /\ active_servers = {}
    /\ server_tools_cache = EmptyDict
    /\ events = <<>>
    /\ enabled = {}
    /\ usage = EmptyDict
    /\ result = NoResult

ProxyInit ==
    /\ CoordIdle
    /\ RegistryNew
    /\ MonitorNew
    /\ task_description = <<>>
    /\ TaskIdle
    /\ tool_to_server = EmptyDict
    /\ server_tools = EmptyDict
    /\ server_info = EmptyDict
    /\ lock = "none"
    /\ task = [p \in Procs |-> IdleTask]
    /\ docker_enabled \in SUBSET Servers
    /\ now = TimeStep
    /\ hist = <<>>

vars == <<tool_to_server, server_tools, server_info, lock, task,
          docker_enabled, now, hist,
          active_servers, server_tools_cache, events, enabled, usage, result,
          registry, refreshed, idle_timeout, recommended, taskVars>>

ProxyNext == RegisterTools \/ UnregisterServer

SpecProxy == ProxyInit /\ [][ProxyNext]_vars

CoordInit ==
    /\ CoordIdle
    /\ RegistryNew
    /\ MonitorNew
    /\ task_description = <<>>
    /\ TaskIdle
    /\ tool_to_server = EmptyDict
    /\ server_tools = EmptyDict
    /\ server_info = EmptyDict
    /\ lock = "none"
    /\ task = [p \in Procs |-> IdleTask]
    /\ docker_enabled = {}
    /\ now = TimeStep
    /\ hist = <<>>

CoordNext == ActivateServers \/ DeactivateServers

SpecCoord == CoordInit /\ [][CoordNext]_vars

\* A caller task p1 and a status poller p2 against the pool, the backend and
\* the clock.  The proxy
\* starts as register_tools("x", [t1]) leaves it: t1 is routable, t2 is not.
CallInit ==
    /\ CoordIdle
    /\ RegistryNew
    /\ MonitorNew
    /\ task_description = <<>>
    /\ TaskIdle
    /\ server_tools = DictSet(EmptyDict, "x", <<"t1">>)
    /\ tool_to_server = MapTools(EmptyDict, "x", <<"t1">>)
    /\ hist = <<[op |-> "register", server |-> "x"]>>
    /\ server_info = EmptyDict
    /\ lock = "none"
    /\ task = [p \in Procs |-> IdleTask]
    /\ docker_enabled \in SUBSET Servers
    /\ now = TimeStep

CallNext ==
    \/ CallTool("p1")
    \/ GetServerInfo("p1")
    \/ EnsureServerActive("p1")
    \/ IsServerActive("p1")
    \/ LockAcquire("p1")
    \/ QueryReturn("p1")
    \/ InvokeReturn("p1")
    \/ RecheckReturn("p1")
    \/ InvalAcquire("p1")
    \/ InvalidateAllCache("p1")
    \/ GetServerInfo("p2")
    \/ LockAcquire("p2")
    \/ QueryReturn("p2")
    \/ DockerFlip
    \/ Tick

SpecCall == CallInit /\ [][CallNext]_vars

\* stop_servers / status reads side by side: one task reads the Status Cache
\* while servers are unregistered from the proxy
StopNext ==
    \/ GetServerInfo("p1")
    \/ QueryReturn("p1")
    \/ UnregisterServer
    \/ DockerFlip
    \/ Tick

SpecStop == CallInit /\ [][StopNext]_vars

\* two clients' tool calls side by side: each task runs one handler at a time
BatchNext ==
    \/ StartServers("p1")
    \/ EnableReturn("p1")
    \/ FetchReturn("p1")
    \/ PromptsReturn("p1")
    \/ StopServers("p1")
    \/ DisableReturn("p1")
    \/ StartServers("p2")
    \/ EnableReturn("p2")
    \/ FetchReturn("p2")
    \/ PromptsReturn("p2")
    \/ StopServers("p2")
    \/ DisableReturn("p2")
    \/ DockerFlip

SpecBatch == ProxyInit /\ [][BatchNext]_vars

SyncNext == SyncState \/ BackendToggle \/ DeactivateServers

SpecSync == CoordInit /\ [][SyncNext]_vars

\* a UsageMonitor built with the default timeout or with idle_timeout_minutes=0
MonitorInit ==
    /\ CoordIdle
    /\ RegistryNew
    /\ task_description = <<>>
    /\ TaskIdle
    /\ idle_timeout \in {0, 60 * idle_timeout_minutes}
    /\ recommended = [seq |-> 0, active |-> {}, at |-> 0, servers |-> {}]
    /\ tool_to_server = EmptyDict
    /\ server_tools = EmptyDict
    /\ server_info = EmptyDict
    /\ lock = "none"
    /\ task = [p \in Procs |-> IdleTask]
    /\ docker_enabled = {}
    /\ hist = <<>>
    /\ now = 0

MonitorNext == TrackActivation \/ TrackToolUsage \/ RecommendDeactivation \/ MonTick

SpecMonitor == MonitorInit /\ [][MonitorNext]_vars

\* activate_servers([s], auto_activate_deps=...), the first activation of the
\* run
ActivateOneServer ==
    /\ events = <<>>
    /\ \E s \in Servers, auto \in BOOLEAN : activate_servers(<<s>>, auto)
    /\ UNCHANGED <<orchVars, now, regVars, monVars, taskVars>>

\* deactivate_servers([s])
DeactivateOneServer ==
    /\ \E s \in Servers : deactivate_servers(<<s>>, FALSE)
    /\ UNCHANGED <<orchVars, now, regVars, monVars, taskVars>>

\* sync_state() with every backend command answering and "server ls" printing
\* the rows of the enabled servers only
SyncAnswered ==
    /\ sync_state(TRUE, enabled, TRUE, TRUE, Servers)
    /\ UNCHANGED <<orchVars, now, monVars, taskVars>>

\* sync_state() with every "server ls" answering, whatever rows it prints, and
\* the tool listing working for every server or for none
SyncListed ==
    /\ \E listed \in SUBSET Servers, tools_ok \in {{}, Servers} :
            sync_state(TRUE, listed, TRUE, TRUE, tools_ok)
    /\ UNCHANGED <<orchVars, now, monVars, taskVars>>

\* the coordinator from start-up on: initialize, then the activate, deactivate
\* and sync tools, "server ls" printing any rows
LifecycleNext ==
    \/ Initialize
    \/ ActivateOneServer
    \/ DeactivateOneServer
    \/ SyncListed

SpecLifecycle == CoordInit /\ [][LifecycleNext]_vars

\* nothing is called for MonMaxTime seconds
IdlePeriod ==
    /\ now = 0
    /\ now' = MonMaxTime
    /\ UNCHANGED <<orchVars, coordVars, regVars, monVars, taskVars>>

OptimizeNext ==
    \/ ActivateOneServer
    \/ DeactivateOneServer
    \/ SyncAnswered
    \/ MonitorUsage
    \/ OptimizeServers
    \/ IdlePeriod

\* the coordinator after start-up, its monitor holding no record yet or the
\* record of a server whose tool was used once
OptimizeInit ==
    /\ now = 0
    /\ active_servers = {}
    /\ server_tools_cache = EmptyDict
    /\ events = <<>>
    /\ enabled = {}
    /\ \/ usage = EmptyDict
       \/ usage = track_tool_usage(EmptyDict, "x", "t1")
    /\ result = NoResult
    /\ RegistryNew
    /\ MonitorNew
    /\ task_description = <<>>
    /\ TaskIdle
    /\ tool_to_server = EmptyDict
    /\ server_tools = EmptyDict
    /\ server_info = EmptyDict
    /\ lock = "none"
    /\ task = [p \in Procs |-> IdleTask]
    /\ docker_enabled = {}
    /\ hist = <<>>

\* the coordinator's operations on the active set while the clock advances
SpecOptimize == OptimizeInit /\ [][OptimizeNext]_vars

UsageNext == TrackActivationCall \/ TrackToolUsageCall \/ MonTick

\* the two tracking calls on one UsageMonitor while the clock advances
SpecUsage == MonitorInit /\ [][UsageNext]_vars

\* find_matching_profile applied to one task text
ProfilesInit ==
    /\ CoordIdle
    /\ RegistryNew
    /\ MonitorNew
    /\ task_description \in TaskTexts
    /\ TaskIdle
    /\ tool_to_server = EmptyDict
    /\ server_tools = EmptyDict
    /\ server_info = EmptyDict
    /\ lock = "none"
    /\ task = [p \in Procs |-> IdleTask]
    /\ docker_enabled = {}
    /\ hist = <<>>
    /\ now = 0

ProfilesNext == FindMatchingProfile

SpecProfiles == ProfilesInit /\ [][ProfilesNext]_vars

\* the orchestrator before one task text is handed to activate_for_task
TaskInit ==
    /\ CoordIdle
    /\ RegistryNew
    /\ MonitorNew
    /\ task_description \in TaskSamples
    /\ task_options \in [auto_activate_deps : BOOLEAN, use_profiles : BOOLEAN]
    /\ config_path = "base"
    /\ analysis = <<>>
    /\ tool_to_server = EmptyDict
    /\ server_tools = EmptyDict
    /\ server_info = EmptyDict
    /\ lock = "none"
    /\ task = [p \in Procs |-> IdleTask]
    /\ docker_enabled = {}
    /\ hist = <<>>
    /\ now = 0

TaskNext == ActivateForTask \/ DeactivateServers

SpecTask == TaskInit /\ [][TaskNext]_vars

\* a task analyzer over one of the catalogs, before it analyses one task text
AnalyzeInit ==
    /\ CoordIdle
    /\ RegistryNew
    /\ MonitorNew
    /\ task_description \in AnalyzeSamples
    /\ task_options = [auto_activate_deps |-> TRUE, use_profiles |-> TRUE]
    /\ config_path \in ConfigPaths
    /\ analysis = <<>>
    /\ tool_to_server = EmptyDict
    /\ server_tools = EmptyDict
    /\ server_info = EmptyDict
    /\ lock = "none"
    /\ task = [p \in Procs |-> IdleTask]
    /\ docker_enabled = {}
    /\ hist = <<>>
    /\ now = 0

AnalyzeNext == AnalyzeTask

ConfidenceNext == AnalyzeTask \/ AnalyzeTaskEmbedded

\* analyze_task with either scorer of the router
SpecConfidence == AnalyzeInit /\ [][ConfidenceNext]_vars

SpecAnalyze == AnalyzeInit /\ [][AnalyzeNext]_vars

TelemetryNext == LogActivation

\* log_activation called again and again on one Telemetry
SpecTelemetry == CoordInit /\ [][TelemetryNext]_vars

CategoryNext == DetectCategory

\* _detect_category applied to one name and description
SpecCategory == CoordInit /\ [][CategoryNext]_vars

DiscoverNext == DiscoverAll \/ BackendToggle

\* discover_all_servers over a backend whose servers are switched on and off
SpecDiscover == CoordInit /\ [][DiscoverNext]_vars

RegistryInit ==
    /\ CoordIdle
    /\ RegistryNew
    /\ MonitorNew
    /\ task_description = <<>>
    /\ TaskIdle
    /\ tool_to_server = EmptyDict
    /\ server_tools = EmptyDict
    /\ server_info = EmptyDict
    /\ lock = "none"
    /\ task = [p \in Procs |-> IdleTask]
    /\ docker_enabled = {}
    /\ hist = <<>>
    /\ now = RegStep

RegistryNext == Refresh \/ BackendToggle \/ RegTick

RefreshersNext ==
    \/ \E p \in Procs : IssueRefresh(p)
    \/ \E p \in Procs : RunRefresh(p)
    \/ RegTick

\* two tasks calling refresh(force=False) on one registry
SpecRefreshers == RegistryInit /\ [][RefreshersNext]_vars

SpecRegistry == RegistryInit /\ [][RegistryNext]_vars

----------------------------------------------------------------------------
(* Claims about ToolProxy and MCPConnectionPool *)

OwnedBy(s) == {t \in DOMAIN tool_to_server : tool_to_server[t] = s}

\* C1 (as stated): right after a registration of server s followed by
\* unregister_server(s), no ToolIndex entry is owned by s.
C1_NoToolOfDeactivated ==
    \A s \in Servers :
        ( /\ Len(hist) >= 2
          /\ hist[Len(hist) - 1] = [op |-> "register", server |-> s]
          /\ hist[Len(hist)] = [op |-> "unregister", server |-> s] )
        => OwnedBy(s) = {}

RegisteredTools == UNION {Range(server_tools[s]) : s \in DOMAIN server_tools}

\* C2 (as stated): the ToolIndex holds exactly the union of the tool names of
\* the registered servers, and every entry maps to a registered server.
C2_IndexIsUnionOfRegistered ==
    /\ DOMAIN tool_to_server = RegisteredTools
    /\ \A t \in DOMAIN tool_to_server : tool_to_server[t] \in DOMAIN server_tools

CachedReadOps == {"get_server_info", "ensure_server_active", "call_tool"}

\* C5 (as stated): no status read of any kind is answered from a cache entry
\* whose age has reached status_check_ttl.
C5_NoStaleAnswerAnyRead ==
    \A p \in Procs : task[p].age # -1 => task[p].age < status_check_ttl

\* C5 (amended): a status read made through get_server_info (get_server_info,
\* ensure_server_active, the pre-call check of call_tool_via_cli) is answered
\* from the cache only while now - last_checked < status_check_ttl; with an
\* older entry, or none, it queries the backend first.
C5_NoStaleAnswer ==
    \A p \in Procs :
        task[p].op \in CachedReadOps =>
            /\ task[p].age # -1 => task[p].age < status_check_ttl
            /\ (task[p].age = -1 /\ task[p].reads > 0) => task[p].queries > 0

\* an entry cached as active has expired and the read is querying the backend
C5_Witness ==
    /\ task["p1"].op = "ensure_server_active"
    /\ task["p1"].pc = "query"
    /\ task["p1"].server \in DOMAIN server_info
    /\ server_info[task["p1"].server].is_active
    /\ now - server_info[task["p1"].server].last_checked >= status_check_ttl

\* C7: call_tool never raises and returns (result, no error) or (no result,
\* error); for a tool absent from the ToolIndex it returns NotFound at once,
\* having read no status, called no backend and changed no cache.
C7_NotFoundTouchesNothing ==
    \A p \in Procs :
        task[p].op = "call_tool" =>
            /\ ~task[p].raised
            /\ task[p].pc = "idle" =>
                  \/ task[p].res = "value" /\ task[p].err = "none"
                  \/ task[p].res = "none" /\ task[p].err # "none"
            /\ task[p].tool \notin DOMAIN tool_to_server =>
                  /\ task[p].pc = "idle"
                  /\ task[p].err = "not_found"
                  /\ task[p].reads = 0 /\ task[p].queries = 0
                  /\ task[p].invokes = 0
                  /\ task[p].writes = 0 /\ task[p].invals = 0

C7_Witness ==
    /\ task["p1"].op = "call_tool"
    /\ task["p1"].tool \notin DOMAIN tool_to_server
    /\ task["p1"].err = "not_found"
    /\ server_info # EmptyDict

\* C8: within one call, docker call_tool is issued only after the Status Cache
\* reported the owning server active; a server reported inactive gives
\* ConnectionFailure and no invoke.
C8_StatusGate ==
    \A p \in Procs :
        task[p].op = "call_tool" =>
            /\ task[p].invokes > 0 => task[p].gate = "active"
            /\ task[p].gate = "inactive" =>
                  /\ task[p].invokes = 0
                  /\ task[p].pc \in {"idle", "inval"}
                  /\ task[p].pc = "idle" => task[p].err = "connection_failure"

C8_Witness ==
    /\ task["p1"].op = "call_tool"
    /\ task["p1"].gate = "inactive"
    /\ task["p1"].pc = "idle"
    /\ task["p1"].err = "connection_failure"
    /\ task["p1"].server \in docker_enabled

\* C9 (as stated): after a failed invoke the status is re-checked once; inactive
\* gives ConnectionFailure and one invalidation, active gives the raw backend
\* error and no invalidation, and an undetermined re-check is not reported as
\* the server having become inactive.
C9_RecheckDistinguishes ==
    \A p \in Procs :
        (task[p].op = "call_tool" /\ task[p].pc = "idle" /\ task[p].inv = "error") =>
            /\ task[p].re = "inactive" =>
                  task[p].err = "connection_failure" /\ task[p].invals = 1
            /\ task[p].re = "active" =>
                  task[p].err = "backend_error" /\ task[p].invals = 0
            /\ task[p].re = "unknown" => task[p].err # "connection_failure"

\* C10: a call that ends in ConnectionFailure has invalidated the owning
\* server's entry exactly once and returned the error; no other outcome
\* invalidates; docker call_tool is issued at most once per call.
C10_OneInvalidationNoRetry ==
    \A p \in Procs :
        task[p].op = "call_tool" =>
            /\ task[p].invokes <= 1
            /\ task[p].invals <= 1
            /\ (task[p].pc = "idle" /\ task[p].err = "connection_failure") =>
                  task[p].invals = 1 /\ task[p].res = "none" /\ ~task[p].raised
            /\ (task[p].pc = "idle" /\ task[p].err # "connection_failure") =>
                  task[p].invals = 0

\* the server went away during the call: invoke failed, the re-check saw it gone
C10_Witness ==
    /\ task["p1"].op = "call_tool"
    /\ task["p1"].pc = "idle"
    /\ task["p1"].err = "connection_failure"
    /\ task["p1"].invokes = 1
    /\ task["p1"].re = "inactive"
    /\ task["p1"].invals = 1

----------------------------------------------------------------------------
(* Claims about the coordinator and the registry *)

Called(op) == result'.seq # result.seq /\ result'.op = op

AttemptedNames(attempts, ok) ==
    LET kept == SelectSeq(attempts, LAMBDA a : a.success = ok)
    IN  [i \in 1..Len(kept) |-> kept[i].server]

\* C3: in activate_servers a failed enable never aborts the batch: every server
\* of the expanded list is either already active or attempted, activated holds
\* exactly the servers whose enable succeeded in this call and failed exactly
\* those whose enable failed, and the call adds to the active set and the tool
\* cache the servers whose enable succeeded and nothing else.
C3_BatchNeverAborts ==
    [][Called("activate") =>
        LET r == result'
        IN  /\ r.expanded = servers_to_activate(r.servers, r.auto)
            /\ Len(r.tools) + Len(r.failed) = Len(r.expanded)
            /\ Len(r.attempts) = Len(r.activated) + Len(r.failed)
            /\ \A s \in Range(r.expanded) \ active_servers :
                  s \in Range(r.activated) \cup Range(r.failed)
            /\ r.activated = AttemptedNames(r.attempts, TRUE)
            /\ r.failed = AttemptedNames(r.attempts, FALSE)
            /\ active_servers' = active_servers \cup Range(r.activated)
            /\ DOMAIN server_tools_cache' =
                  DOMAIN server_tools_cache \cup Range(r.activated)
            /\ \A s \in Range(r.failed) \ Range(r.activated) :
                  s \notin active_servers' /\ s \notin DOMAIN server_tools_cache'
    ]_vars

\* activate(["x","y"]): "x" enabled, "y" failed
C3_Witness ==
    /\ result.op = "activate"
    /\ result.expanded = <<"x", "y">>
    /\ result.activated = <<"x">>
    /\ result.failed = <<"y">>
    /\ result.tools = <<[server |-> "x", tools |-> BackendTools("x"),
                         status |-> "activated"]>>
    /\ active_servers = {"x"}
    /\ DOMAIN server_tools_cache = {"x"}

\* C4 (as stated): a second activate with the arguments of the activate just
\* before it leaves the active set and the tool cache as the first left them.
C4_SecondCallChangesNothing ==
    [][(Called("activate") /\ result.op = "activate"
            /\ result'.servers = result.servers /\ result'.auto = result.auto)
        => /\ active_servers' = active_servers
           /\ server_tools_cache' = server_tools_cache
    ]_vars

\* C4 (amended): activate skips every server that is already active: no enable,
\* no tool fetch and no ActivationEvent for it, its cache entry is untouched,
\* its tools come from the cache with status "already_active", and it is not
\* in activated; one event is logged per attempted enable.  A second activate
\* with the same arguments changes nothing when the first had no failure.
C4_ActiveServersSkipped ==
    [][Called("activate") =>
        LET r == result'
        IN  /\ \A s \in active_servers :
                  /\ s \in active_servers'
                  /\ s \in DOMAIN server_tools_cache =>
                        /\ s \in DOMAIN server_tools_cache'
                        /\ server_tools_cache'[s] = server_tools_cache[s]
                  /\ s \notin Range(r.activated) \cup Range(r.failed)
                  /\ \A i \in 1..Len(r.attempts) : r.attempts[i].server # s
                  /\ \A i \in 1..Len(r.tools) :
                        r.tools[i].server = s =>
                            /\ r.tools[i].status = "already_active"
                            /\ r.tools[i].tools =
                                  IF s \in DOMAIN server_tools_cache
                                  THEN server_tools_cache[s] ELSE <<>>
            /\ \A s \in Range(r.expanded) \cap active_servers :
                  \E i \in 1..Len(r.tools) : r.tools[i].server = s
            /\ Len(events') = Len(events) + Len(r.attempts)
            /\ (result.op = "activate" /\ r.servers = result.servers
                    /\ r.auto = result.auto /\ result.failed = <<>>)
               => /\ r.attempts = <<>>
                  /\ active_servers' = active_servers
                  /\ server_tools_cache' = server_tools_cache
                  /\ events' = events /\ usage' = usage
    ]_vars

\* the second of two activate(["x"]) calls: "x" and its dependency "y" skipped
C4_Witness ==
    /\ result.op = "activate"
    /\ result.servers = <<"x">>
    /\ result.expanded = <<"x", "y">>
    /\ result.attempts = <<>>
    /\ Len(result.tools) = Len(result.expanded)
    /\ \A i \in 1..Len(result.tools) :
          /\ result.tools[i].status = "already_active"
          /\ result.tools[i].tools = BackendTools(result.tools[i].server)
    /\ Len(events) = Len(result.expanded)

\* C6: a refresh(force=False) made while the last discovery, or the last
\* discovery whose listing succeeded, is younger than discovery_interval runs
\* no discovery and returns the server map unchanged, the same map the call
\* before it returned; a forced refresh, a first refresh, and a refresh made
\* discovery_interval or more after the last discovery run discovery.
C6_Debounce ==
    [][refreshed'.seq # refreshed.seq =>
        LET young == /\ registry.last_discovery # <<>>
                     /\ now - registry.last_discovery[1] < discovery_interval
            youngOk == /\ refreshed.last_ok # <<>>
                       /\ now - refreshed.last_ok[1] < discovery_interval
        IN  /\ (~refreshed'.force /\ (young \/ youngOk)) =>
                  /\ ~refreshed'.ran
                  /\ refreshed'.calls = refreshed.calls
                  /\ registry' = registry
                  /\ refreshed'.returned = registry.servers
                  /\ refreshed'.returned = refreshed.returned
            /\ (refreshed'.force \/ ~young) =>
                  /\ refreshed'.ran
                  /\ refreshed'.calls = refreshed.calls + 1
                  /\ registry'.last_discovery = <<now>>
                  /\ refreshed'.returned = registry'.servers
    ]_vars

\* a refresh half an interval after a discovery that found servers
C6_Witness ==
    /\ ~refreshed.ran
    /\ ~refreshed.force
    /\ refreshed.calls = 1
    /\ refreshed.returned = registry.servers
    /\ DOMAIN registry.servers = Servers
    /\ registry.last_discovery # <<>>
    /\ now > registry.last_discovery[1]
    /\ now - registry.last_discovery[1] < discovery_interval

----------------------------------------------------------------------------
(* More claims about ToolProxy *)

Unregistered(s) == hist' = Remember(hist, [op |-> "unregister", server |-> s])

\* C11 (as stated): unregister_server(s) leaves no ToolIndex entry mapped to s
\* and keeps every entry that mapped to another server.
C11_UnregisterRemovesExactlyOwn ==
    [][\A s \in Servers :
        Unregistered(s) =>
            /\ \A t \in DOMAIN tool_to_server' : tool_to_server'[t] # s
            /\ \A t \in DOMAIN tool_to_server :
                  tool_to_server[t] # s =>
                      /\ t \in DOMAIN tool_to_server'
                      /\ tool_to_server'[t] = tool_to_server[t]
    ]_vars

\* C12 (as stated): when unregister_server(s) has returned for a registered
\* server s, s has no entry in the pool's status cache.
C12_UnregisterInvalidates ==
    [][\A s \in Servers :
        (Unregistered(s) /\ s \in DOMAIN server_tools) =>
            s \notin DOMAIN server_info'
    ]_vars

\* C13 (as stated): no tool of a still-registered server is mapped to a server
\* that is not registered.
C13_OverlapNeverCorrupts ==
    \A s \in DOMAIN server_tools :
        \A t \in Range(server_tools[s]) :
            t \in DOMAIN tool_to_server =>
                tool_to_server[t] \in DOMAIN server_tools

\* C14 (as stated, Status Cache part): a status check that times out, like any
\* status check the backend does not answer, leaves the Status Cache as it was.
C14_TimeoutMutatesNoCache ==
    [][\A p \in Procs :
        (task[p].pc = "query" /\ task'[p].gate = "unknown") =>
            server_info' = server_info
    ]_vars

----------------------------------------------------------------------------
(* More claims about the coordinator *)

\* C15: deactivate_servers handles each server on its own: with servers=None
\* exactly the servers active at the call are attempted, once each; with a
\* list, every listed server that is active is attempted; a successful disable
\* removes the server from the active set and the tool cache and lists it in
\* deactivated, a failed one lists it in failed, and the loop goes on after a
\* failure.
C15_DeactivateIndependently ==
    [][Called("deactivate") =>
        LET r == result'
            tried == {r.attempts[i].server : i \in 1..Len(r.attempts)}
        IN  /\ r.all => /\ tried = active_servers
                        /\ Len(r.attempts) = Cardinality(active_servers)
            /\ tried = Range(r.servers) \cap active_servers
            /\ r.deactivated = AttemptedNames(r.attempts, TRUE)
            /\ r.failed = AttemptedNames(r.attempts, FALSE)
            /\ active_servers' = active_servers \ Range(r.deactivated)
            /\ DOMAIN server_tools_cache' =
                  DOMAIN server_tools_cache \ Range(r.deactivated)
            /\ \A s \in DOMAIN server_tools_cache' :
                  server_tools_cache'[s] = server_tools_cache[s]
            /\ r.still_active = active_servers'
    ]_vars

\* deactivate(None) with two active servers: the first disable failed, the
\* second went through
C15_Witness ==
    /\ result.op = "deactivate"
    /\ result.all
    /\ Len(result.attempts) = Cardinality(Servers)
    /\ ~result.attempts[1].success
    /\ result.failed = <<result.attempts[1].server>>
    /\ result.deactivated = <<result.attempts[Len(result.attempts)].server>>
    /\ active_servers = Range(result.failed)
    /\ DOMAIN server_tools_cache = active_servers

\* C16 (as stated): when sync_state has returned and the backend answered its
\* "server ls", the active set is the set of servers the backend reported
\* enabled, the tool cache has an entry for exactly the active servers, the
\* tools of newly found servers were fetched in this sync, and servers no
\* longer enabled are gone from both.
C16_SyncFollowsBackend ==
    [][(Called("sync") /\ result'.en_ok) =>
        /\ active_servers' = result'.reported
        /\ DOMAIN server_tools_cache' = active_servers'
        /\ active_servers' \ active_servers \subseteq result'.fetched
        /\ \A s \in active_servers \ result'.reported :
              s \notin active_servers' /\ s \notin DOMAIN server_tools_cache'
    ]_vars

\* a step in which recommend_deactivation was called and returned
Recommended == recommended'.seq # recommended.seq

\* C17: recommend_deactivation(active_set) returns exactly the servers of
\* active_set that have no UsageRecord or whose idle time now - last_used is
\* strictly greater than idle_timeout; it names no server outside active_set
\* and modifies no UsageRecord.
C17_RecommendExactlyIdle ==
    [][ Recommended =>
        /\ recommended'.servers =
              {s \in recommended'.active :
                  \/ s \notin DOMAIN usage
                  \/ now - usage[s].last_used > idle_timeout}
        /\ recommended'.servers \subseteq recommended'.active
        /\ usage' = usage
    ]_vars

\* a query that kept a server idle for exactly idle_timeout and named another
\* one that never had a record
C17_Witness ==
    /\ idle_timeout > 0
    /\ recommended.at = now
    /\ \E s \in recommended.active :
          /\ s \in DOMAIN usage
          /\ now - usage[s].last_used = idle_timeout
          /\ s \notin recommended.servers
    /\ \E s \in recommended.servers : s \notin DOMAIN usage

\* C18 as stated: with idle_timeout = 0 a server that was activated and never
\* used is recommended by recommend_deactivation({server}) at every query time
\* at or after the activation, the instant of the activation included.
C18_RecommendedAtOnce ==
    [][ \A s \in Servers :
          ( /\ Recommended
            /\ idle_timeout = 0
            /\ recommended'.active = {s}
            /\ s \in DOMAIN usage
            /\ usage[s].access_count = 0
            /\ now >= usage[s].last_used )
          => s \in recommended'.servers
    ]_vars

\* C18: with idle_timeout = 0 a server whose last recorded event is at
\* last_used is recommended by recommend_deactivation({server}) at every query
\* time strictly after last_used, and is not recommended at that same instant.
C18_RecommendedStrictlyAfter ==
    [][ \A s \in Servers :
          ( /\ Recommended
            /\ idle_timeout = 0
            /\ recommended'.active = {s}
            /\ s \in DOMAIN usage )
          => (s \in recommended'.servers <=> now > usage[s].last_used)
    ]_vars

\* an activated, never used server recommended by a later query, timeout 0
C18_Witness ==
    /\ idle_timeout = 0
    /\ \E s \in Servers :
          /\ recommended.active = {s}
          /\ recommended.servers = {s}
          /\ s \in DOMAIN usage
          /\ usage[s].access_count = 0
          /\ recommended.at > usage[s].last_used
          /\ recommended.at = now

\* each upper-case letter with its lower-case form
CasePairs == {<<UpperCase[n], LowerCase[n]>> : n \in 1..Len(LowerCase)}

\* c is the character d or its upper-case form
SameLetter(c, d) == c = d \/ <<c, d>> \in CasePairs

\* kw occurs in text as a substring, the case of the text's letters ignored
OccursIgnoringCase(kw, text) ==
    \E i \in 1..(Len(text) - Len(kw) + 1) :
        \A j \in 1..Len(kw) : SameLetter(text[i + j - 1], kw[j])

\* the i-th (profile, keyword-set) pair has a keyword occurring in text
ProfileHit(i, text) ==
    \E k \in 1..Len(profile_keywords[i].keywords) :
        OccursIgnoringCase(profile_keywords[i].keywords[k], text)

\* C19: find_matching_profile(task) returns the first profile, in the fixed
\* order of the (profile, keyword-set) list, one of whose keywords occurs as a
\* case-insensitive substring of the task text, and returns none exactly when
\* no keyword set has a hit; "web development task" yields web-development and
\* "full stack everything" yields full-stack with its fixed server list.
C19_FirstProfileWithHit ==
    result.op = "find_matching_profile" =>
        /\ LET hits == {i \in 1..Len(profile_keywords) : ProfileHit(i, result.task)}
           IN  /\ result.profile = <<>> <=> hits = {}
               /\ \A i \in hits :
                     (\A j \in hits : i <= j)
                     => result.profile =
                           <<SERVER_PROFILES[profile_keywords[i].profile_name]>>
        /\ result.task = <<"w", "e", "b", " ", "d", "e", "v", "e", "l", "o", "p", "m", "e", "n", "t", " ", "t", "a", "s", "k">>
              => /\ result.profile # <<>>
                 /\ result.profile[1].name = "web-development"
        /\ result.task = <<"f", "u", "l", "l", " ", "s", "t", "a", "c", "k", " ", "e", "v", "e", "r", "y", "t", "h", "i", "n", "g">>
              => /\ result.profile # <<>>
                 /\ result.profile[1].name = "full-stack"
                 /\ result.profile[1].servers =
                       <<"playwright", "github", "postgres", "redis", "context7",
                         "fetch", "desktop-commander">>

\* "Docs SQL" hits documentation and, before it in the list, data-science
C19_Witness ==
    /\ result.op = "find_matching_profile"
    /\ result.task = <<"D", "o", "c", "s", " ", "S", "Q", "L">>
    /\ result.profile # <<>>
    /\ result.profile[1].name = "data-science"

\* C20: in activate_for_task(task), when a profile matches the task and is
\* marked auto-activate, the Task Analyzer is not consulted and the servers
\* attempted for activation are exactly that profile's fixed server list,
\* verbatim: no server outside the list is enabled, whatever dependencies the
\* capabilities declare and whatever auto_activate_deps the caller passed.
C20_ProfileListVerbatim ==
    [][ \A profile \in {find_matching_profile(task_description)} :
          ( /\ Called("activate")
            /\ task_options.use_profiles
            /\ profile # <<>>
            /\ profile[1].auto_activate )
          => /\ analysis' = <<>>
             /\ result'.expanded = profile[1].servers
             /\ \A i \in 1..Len(result'.attempts) :
                   result'.attempts[i].server \in Range(profile[1].servers)
             /\ enabled' \ enabled \subseteq Range(profile[1].servers)
    ]_vars

\* the servers of the catalog with a tag occurring in the lower-cased text
TagMatches(text) ==
    {name \in DOMAIN Capabilities :
        \E k \in 1..Len(Capabilities[name].covers_technologies) :
            OccursIgnoringCase(Capabilities[name].covers_technologies[k], text)}

\* the servers the semantic pass returned, after its top-K cut
TopKMatches(an) == {an.semantic_matches[i].server : i \in 1..Len(an.semantic_matches)}

\* every server that has a tag occurring in the task text is required, and
\* only tag matches and top-K semantic matches are required
RequiredIsKeywordPlusTopK ==
    analysis # <<>> =>
        /\ TagMatches(task_description) \subseteq Range(analysis[1].required_servers)
        /\ Range(analysis[1].required_servers)
              \subseteq TagMatches(task_description) \cup TopKMatches(analysis[1])

\* "query the database and cache results"
ExampleText ==
    <<"q", "u", "e", "r", "y", " ", "t", "h", "e", " ", "d", "a", "t", "a", "b", "a", "s", "e", " ", "a", "n", "d", " ", "c", "a", "c", "h", "e", " ", "r", "e", "s", "u", "l", "t", "s">>

\* C21 as stated: analyze(task) requires every server with a tag occurring in
\* the lower-cased task text, whatever its semantic score and the top-K cut, and
\* requires only keyword and top-K semantic matches; with tags {database, sql}
\* on A and {caching} on B and the text "query the database and cache results"
\* both A and B are required.
C21_KeywordMatchesRequiredWithExample ==
    /\ RequiredIsKeywordPlusTopK
    /\ ( /\ analysis # <<>>
         /\ config_path = "example"
         /\ task_description = ExampleText )
       => {"A", "B"} \subseteq Range(analysis[1].required_servers)

\* C21: analyze(task) requires every server with a tag occurring in the
\* lower-cased task text, whatever its semantic score and the top-K cut, and
\* requires only keyword and top-K semantic matches; with tags {database, sql}
\* on A and {caching} on B and the text "query the database and cache results"
\* A is required, and B, none of whose tags occurs in the text, is required
\* exactly when the semantic pass returns it.
C21_KeywordMatchesRequired ==
    /\ RequiredIsKeywordPlusTopK
    /\ ( /\ analysis # <<>>
         /\ config_path = "example"
         /\ task_description = ExampleText )
       => /\ "A" \in Range(analysis[1].required_servers)
          /\ "B" \in Range(analysis[1].required_servers)
                <=> "B" \in TopKMatches(analysis[1])

\* the built-in catalog: a server whose tag is in the text is required although
\* the semantic pass cut it off after its five best matches
C21_Witness ==
    /\ analysis # <<>>
    /\ config_path = "none"
    /\ Len(analysis[1].semantic_matches) = 5
    /\ \E name \in TagMatches(task_description) :
          /\ name \notin TopKMatches(analysis[1])
          /\ name \in Range(analysis[1].required_servers)

\* the dependency/companion servers of an analysis: the documentation companion
\* it recommended and every related server a required server declares
DependencyServers(an) ==
    ({"context7"} \cap Range(an.recommended_servers))
    \cup {r \in Range(an.required_servers \o an.recommended_servers) :
            \E s \in Range(an.required_servers) \cap DOMAIN Capabilities :
                r \in Range(Capabilities[s].related_servers)}

\* C22: activation_order contains every required and recommended server
\* exactly once, every dependency/companion server (the documentation
\* companion and every related server declared by a required server) comes
\* before all other servers, and first-seen order is preserved within each of
\* the two groups, for any capability catalog.
C22_DependenciesFirst ==
    analysis # <<>> =>
        LET an    == analysis[1]
            order == an.activation_order
            seen  == an.required_servers \o an.recommended_servers
            deps  == DependencyServers(an)
        IN  /\ Range(order) = Range(seen)
            /\ \A i, j \in 1..Len(order) : order[i] = order[j] => i = j
            /\ \A i, j \in 1..Len(order) :
                  (order[i] \in deps /\ order[j] \notin deps) => i < j
            /\ Filter(order, deps) = Filter(seen, deps)
            /\ Filter(order, Range(order) \ deps) = Filter(seen, Range(seen) \ deps)

\* the i-th (category, keyword-set) rule has a keyword occurring in text
CategoryHit(i, text) ==
    \E k \in 1..Len(CATEGORY_KEYWORDS[i].keywords) :
        OccursIgnoringCase(CATEGORY_KEYWORDS[i].keywords[k], text)

\* C28: the category is that of the first rule, in the fixed order of the
\* (category, keyword-set) list, with a keyword occurring in the lower-cased
\* concatenation of server name and description, and "other" exactly when no
\* rule matches; ("redis", "Redis cache") is database and ("playwright",
\* "Browser automation") is browser.
C28_FirstCategoryWithHit ==
    result.op = "detect_category" =>
        LET text == result.server_name \o <<" ">> \o result.description
            hits == {i \in 1..Len(CATEGORY_KEYWORDS) : CategoryHit(i, text)}
        IN  /\ result.category = "other" <=> hits = {}
            /\ \A i \in hits :
                  (\A j \in hits : i <= j)
                  => result.category = CATEGORY_KEYWORDS[i].category
            /\ (result.server_name = <<"r", "e", "d", "i", "s">> /\ result.description = <<"R", "e", "d", "i", "s", " ", "c", "a", "c", "h", "e">>)
                  => result.category = "database"
            /\ (result.server_name = <<"p", "l", "a", "y", "w", "r", "i", "g", "h", "t">> /\ result.description = <<"B", "r", "o", "w", "s", "e", "r", " ", "a", "u", "t", "o", "m", "a", "t", "i", "o", "n">>)
                  => result.category = "browser"

\* ("fetch", "GitHub API"): the name hits networking, the description hits
\* version_control, which comes first in the list
C28_Witness ==
    /\ result.op = "detect_category"
    /\ result.server_name = <<"f", "e", "t", "c", "h">>
    /\ result.description = <<"G", "i", "t", "H", "u", "b", " ", "A", "P", "I">>
    /\ result.category = "version_control"

----------------------------------------------------------------------------
(* Claims about discovery *)

\* one of the three per-server commands failed or printed unusable data
CommandFailed(o) ==
    ~o.status_ok \/ o.inspect \notin Described \/ o.inspect \in Raising \/ ~o.tools_ok

\* the status the backend has for a server at a discovery
BackendStatus(n) == IF n \in enabled THEN "enabled" ELSE "disabled"

\* the metadata of a server for which every command succeeded
IsFullyDiscovered(md, n, at) ==
    /\ md.name = n
    /\ md.status = BackendStatus(n)
    /\ md.description = <<InspectDescription(n)>>
    /\ md.tool_count = Len(BackendTools(n))
    /\ md.last_discovered = <<at>>

\* a ServerMetadata holding the name, status "unknown" and defaults
IsMinimalUnknown(md, n) ==
    /\ md.name = n
    /\ md.status = "unknown"
    /\ md.description = <<>>
    /\ md.category = "other"
    /\ md.tool_count = 0
    /\ ~md.requires_auth
    /\ md.auth_type = <<>>
    /\ md.last_discovered = <<>>

\* C23 as stated: discover_all() returns a map keyed by exactly the listed
\* server names; a failure while fetching one server's status, inspect data or
\* tool count neither aborts the batch nor removes the server but yields a
\* minimal ServerMetadata with status "unknown" for it, while the other servers
\* keep their fully discovered metadata.
C23_FailedServerIsMinimalUnknown ==
    [][ Called("discover_all") =>
        /\ DOMAIN result'.returned = (IF result'.ls_ok THEN result'.listed ELSE {})
        /\ \A n \in DOMAIN result'.returned :
              IF CommandFailed(result'.outcomes[n])
              THEN IsMinimalUnknown(result'.returned[n], n)
              ELSE IsFullyDiscovered(result'.returned[n], n, now)
    ]_vars

\* C23: discover_all() returns a map keyed by exactly the listed server names;
\* no per-server failure aborts the batch or removes a server.  A failed
\* command degrades only its own field (status "unknown", no description,
\* tool count 0); a server gets the minimal ServerMetadata with status
\* "unknown" exactly when building its metadata raised; the other servers keep
\* their fully discovered metadata.
C23_DiscoveryKeepsEveryListedServer ==
    [][ Called("discover_all") =>
        /\ DOMAIN result'.returned = (IF result'.ls_ok THEN result'.listed ELSE {})
        /\ \A n \in DOMAIN result'.returned :
              LET o  == result'.outcomes[n]
                  md == result'.returned[n]
              IN  IF o.inspect \in Raising
                  THEN IsMinimalUnknown(md, n)
                  ELSE /\ md.name = n
                       /\ md.status = (IF o.status_ok THEN BackendStatus(n) ELSE "unknown")
                       /\ md.description = (IF o.inspect \in Described
                                            THEN <<InspectDescription(n)>> ELSE <<>>)
                       /\ md.tool_count = (IF o.tools_ok THEN Len(BackendTools(n)) ELSE 0)
                       /\ md.last_discovered = <<now>>
                       /\ ~CommandFailed(o) => IsFullyDiscovered(md, n, now)
    ]_vars

\* a discovery of both servers: building the metadata of one raised and it got
\* the minimal record, the other, enabled in the backend, is fully discovered
C23_Witness ==
    /\ result.op = "discover_all"
    /\ result.ls_ok
    /\ DOMAIN result.returned = Servers
    /\ \E n, m \in Servers :
          /\ result.outcomes[n].inspect = "null_description"
          /\ IsMinimalUnknown(result.returned[n], n)
          /\ ~CommandFailed(result.outcomes[m])
          /\ m \in enabled
          /\ IsFullyDiscovered(result.returned[m], m, result.at)

----------------------------------------------------------------------------
(* More claims about the Status Cache *)

\* C24: get_server_info(server) signals NotFound if and only if the server is
\* absent from both the cache and the backend's inventory; a server the backend
\* knows but has not enabled is reported as inactive, and NotFound is distinct
\* from inactive and from a backend command failure.
C24_NotFoundIffUnknownEverywhere ==
    [][ \A p \in Procs :
          ( /\ task[p].op = "get_server_info"
            /\ task[p].pc = "query"
            /\ task'[p].pc = "idle" )
          => ( task'[p].err = "server_not_found"
               <=> ( /\ task[p].server \notin DOMAIN server_info
                     /\ task[p].server \notin BackendInventory ) )
    ]_vars

----------------------------------------------------------------------------
(* Claims about the start_servers and stop_servers handlers *)

\* the backend accepted the command for s and, when start_servers went on to
\* fetch its tools, the fetch returned a non-empty list
OwnOperationsSucceed(r, s) ==
    /\ s \notin r.refused
    /\ (r.op = "start_servers" /\ s \in DOMAIN r.fetched) =>
           (r.fetched[s].error = <<>> /\ r.fetched[s].tools # <<>>)

\* C25: in a batch start_servers(S) or stop_servers(S) a backend command
\* failure concerning one server is captured per server in the result's errors
\* map and never aborts its siblings: every refused server has an entry in the
\* errors map, and every other server of S whose own backend operations
\* succeed is enabled (start) or disabled (stop) after the call and, for start,
\* has its tools registered in the proxy.
C25_FailureNeverAbortsSiblings ==
    [][(Called("start_servers") \/ Called("stop_servers")) =>
        LET r == result'
        IN  /\ \A s \in r.refused :
                   r.errors # <<>> /\ s \in DOMAIN r.errors[1]
            /\ \A s \in Range(r.requested) :
                   OwnOperationsSucceed(r, s) =>
                       IF r.op = "start_servers"
                       THEN s \in docker_enabled' /\ s \in DOMAIN server_tools'
                       ELSE s \notin docker_enabled']_vars

\* C26: the result of start_servers distinguishes success (every requested
\* server started, no failures map), partial success (at least one server
\* started and at least one failed, with a failures map) and outright error (no
\* server started): the status is never "success" when some server failed and
\* never a non-error status when no server started.
C26_StatusDistinguishesOutcomes ==
    result.op = "start_servers" =>
        /\ result.status \in {"success", "partial", "error"}
        /\ result.status = "success" =>
               /\ result.errors = <<>>
               /\ Range(result.servers) = Range(result.requested)
        /\ result.status = "partial" =>
               /\ result.servers # <<>>
               /\ result.errors # <<>>
        /\ result.servers = <<>> => result.status = "error"


\* C32: stop_servers(S) removes a server's tools from the ToolIndex
\* atomically with its deactivation: after the call a server of S has no tools
\* registered when the backend disable succeeded, and when the backend disable
\* failed the server, still enabled in the backend, keeps the tools it had
\* registered.
C32_ToolsRemovedWithDeactivation ==
    [][(Called("stop_servers") /\ result'.requested # <<>>) =>
        \A s \in Range(result'.requested) :
            IF result'.status = "success"
            THEN /\ s \notin DOMAIN server_tools'
                 /\ \A t \in DOMAIN tool_to_server' : tool_to_server'[t] # s
            ELSE s \in DOMAIN result'.had =>
                    /\ s \in DOMAIN server_tools'
                    /\ server_tools'[s] = result'.had[s]]_vars

----------------------------------------------------------------------------
(* Claims about concurrent callers *)

\* task p's refresh call ran in this step
RefreshRan(p) ==
    /\ task[p].op = "refresh"
    /\ task[p].pc = "issued"
    /\ task'[p].pc = "idle"

\* C33: concurrent refresh(force=False) calls issued within one discovery
\* interval never trigger a second backend discovery: in any interleaving of
\* the calls, a call runs discovery only when no discovery was made yet or the
\* last one is at least discovery_interval old, so discovery is performed at
\* most once per interval.
C33_OneDiscoveryPerInterval ==
    [][\A p \in Procs :
          (RefreshRan(p) /\ refreshed'.ran) =>
              /\ refreshed'.calls = refreshed.calls + 1
              /\ \/ registry.last_discovery = <<>>
                 \/ now - registry.last_discovery[1] >= discovery_interval
    ]_vars

\* two calls were pending together; one ran discovery, the other was run at
\* the same instant and answered from the cache
C33_Witness ==
    /\ refreshed.calls = 1
    /\ ~refreshed.ran
    /\ registry.last_discovery = <<now>>
    /\ \A p \in Procs : task[p].pc = "idle"

\* C34: the Status Cache mutex is not held across the backend round trip:
\* two concurrent get_server_info calls for different servers never contend,
\* that is, neither waits for the lock while the other's backend status query
\* for another server is in flight.
C34_DifferentServersNeverContend ==
    \A p \in Procs : \A q \in Procs \ {p} :
        ~ ( /\ task[p].op = "get_server_info"
            /\ task[q].op = "get_server_info"
            /\ task[p].server # task[q].server
            /\ task[q].pc = "query"
            /\ lock = q
            /\ task[p].pc = "lock" )

\* task q, which had to wait for the lock, got it in this step
AcquiredAfterWait(q) == task[q].pc = "lock" /\ task'[q].pc # "lock"

\* task q started a backend status query in this step
StartedQuery(q) == task'[q].pc = "query" /\ task[q].pc # "query"

\* the cache holds an entry of server s younger than the TTL
ValidEntry(s) ==
    /\ s \in DOMAIN server_info
    /\ server_info[s].last_checked # 0
    /\ now - server_info[s].last_checked < status_check_ttl

\* C36 as stated: of concurrent get_server_info calls on the same server with
\* no valid cached entry only the first queries the backend: the caller that
\* waited for the lock while the other's query for the same server was in
\* flight finds the entry the first wrote and, within its TTL, answers from
\* the cache.
C36_SecondCallerNeverQueries ==
    [][\A q \in Procs : \A p \in Procs \ {q} :
          ( /\ AcquiredAfterWait(q)
            /\ task[q].op = "get_server_info"
            /\ task[p].op = "get_server_info"
            /\ task[p].server = task[q].server
            /\ task[p].pc = "idle"
            /\ task[p].queries = 1 )
          => /\ task[q].server \in DOMAIN server_info
             /\ ValidEntry(task[q].server) => ~StartedQuery(q)
    ]_vars

\* C36, amended: the lock is held across the backend query, so a
\* get_server_info call starts a backend query only when the cache holds no
\* entry of its server younger than the TTL, and a caller that waited for the
\* lock answers from the cache exactly when there is such an entry: it finds
\* the entry a successful query of the first caller wrote, and queries again
\* only when that query failed (no entry was written) or the entry has expired.
C36_QueryOnlyWithoutValidEntry ==
    [][\A q \in Procs :
          /\ (StartedQuery(q) /\ task'[q].op = "get_server_info") =>
                 /\ ~ValidEntry(task'[q].server)
                 /\ lock' = q
                 /\ \A p \in Procs \ {q} : task'[p].pc # "query"
          /\ (AcquiredAfterWait(q) /\ task[q].op = "get_server_info") =>
                 (StartedQuery(q) <=> ~ValidEntry(task[q].server))
    ]_vars

\* the second caller waits for the lock while the first caller's query for
\* the same server is in flight
C36_Witness ==
    /\ task["p1"].op = "get_server_info"
    /\ task["p2"].op = "get_server_info"
    /\ task["p1"].server = task["p2"].server
    /\ task["p1"].pc = "query"
    /\ lock = "p1"
    /\ task["p2"].pc = "lock"

----------------------------------------------------------------------------
(* Claims about the coordinator's active set and tool cache *)

\* C35: in every state reached after a completed activate, deactivate, sync or
\* initialize operation the key set of the tool cache equals the active-server
\* set: no active server lacks an entry and no inactive server has one.
C35_CacheKeysAreActiveSet ==
    result.op \in {"activate", "deactivate", "sync", "initialize"} =>
        DOMAIN server_tools_cache = active_servers

\* a sync that dropped one server and detected another whose tool listing
\* failed: the detected one is cached with no tools
C35_Witness ==
    /\ result.op = "sync"
    /\ result.removed # {}
    /\ result.fetched # {}
    /\ \E s \in result.fetched : s \notin result.tools_ok
    /\ active_servers # {}

\* the servers an operation tried to enable or disable, with the given result
Attempted(r, ok) ==
    {r.attempts[i].server : i \in {j \in 1..Len(r.attempts) : r.attempts[j].success = ok}}

\* C37: deactivate(names) changes state only for servers whose backend disable
\* succeeded: a server whose disable fails stays in the active set with its
\* tool-cache entry unchanged and is listed in failed; a name that is not
\* currently active causes no backend call, no state change, and appears in
\* neither deactivated nor failed.
C37_DeactivateChangesOnlyDisabled ==
    [][Called("deactivate") =>
        LET r == result'
        IN  /\ \A s \in Servers \ Attempted(r, TRUE) :
                  /\ (s \in active_servers') = (s \in active_servers)
                  /\ (s \in DOMAIN server_tools_cache') = (s \in DOMAIN server_tools_cache)
                  /\ s \in DOMAIN server_tools_cache =>
                        server_tools_cache'[s] = server_tools_cache[s]
                  /\ (s \in enabled') = (s \in enabled)
            /\ \A s \in Attempted(r, FALSE) :
                  /\ s \in Range(r.failed)
                  /\ s \in active_servers
                  /\ s \notin Attempted(r, TRUE) =>
                        /\ s \in active_servers'
                        /\ s \notin Range(r.deactivated)
            /\ \A s \in Range(r.servers) \ active_servers :
                  /\ s \notin Attempted(r, TRUE) \cup Attempted(r, FALSE)
                  /\ s \notin Range(r.deactivated) \cup Range(r.failed)
                  /\ s \notin active_servers'
            /\ events' = events
            /\ usage' = usage
    ]_vars

\* deactivate of an active server whose disable failed and of a name that is
\* not active
C37_Witness ==
    /\ result.op = "deactivate"
    /\ ~result.all
    /\ Len(result.servers) = 2
    /\ result.servers[1] # result.servers[2]
    /\ Len(result.attempts) = 1
    /\ result.failed = <<result.servers[1]>>
    /\ result.deactivated = <<>>
    /\ active_servers = {result.servers[1]}
    /\ result.servers[1] \in DOMAIN server_tools_cache
    /\ server_tools_cache[result.servers[1]] # <<>>

\* the entries of an activate answer's tools list for server s
ToolEntries(r, s) == {r.tools[i] : i \in {j \in 1..Len(r.tools) : r.tools[j].server = s}}

\* C38: in activate, membership in the active set depends only on the enable
\* result, not on the tool listing: a server whose enable succeeds is added to
\* the active set, reported in activated with status "activated" and cached
\* with the tools that were listed, an empty list when the listing failed; a
\* later call finds it already active and returns the cached (empty) list
\* without an enable or a new listing.
C38_ActiveOnEnableAlone ==
    [][Called("activate") =>
        LET r == result'
        IN  /\ active_servers' = active_servers \cup Attempted(r, TRUE)
            /\ enabled' = enabled \cup Attempted(r, TRUE)
            /\ \A s \in Attempted(r, TRUE) :
                  /\ s \in Range(r.activated)
                  /\ s \in DOMAIN server_tools_cache'
                  /\ server_tools_cache'[s] \in {<<>>, BackendTools(s)}
                  /\ [server |-> s, tools |-> server_tools_cache'[s],
                      status |-> "activated"] \in ToolEntries(r, s)
            /\ \A s \in Attempted(r, FALSE) \ Attempted(r, TRUE) :
                  /\ s \notin active_servers'
                  /\ s \notin Range(r.activated)
                  /\ ToolEntries(r, s) = {}
            /\ \A s \in Range(r.expanded) \cap active_servers :
                  /\ s \notin Attempted(r, TRUE) \cup Attempted(r, FALSE)
                  /\ s \in DOMAIN server_tools_cache
                  /\ server_tools_cache'[s] = server_tools_cache[s]
                  /\ ToolEntries(r, s) = {[server |-> s,
                                           tools |-> server_tools_cache[s],
                                           status |-> "already_active"]}
    ]_vars

\* a server activated with a failed tool listing, asked for again: the call
\* answered already_active with the empty list and tried no enable
C38_Witness ==
    /\ result.op = "activate"
    /\ result.attempts = <<>>
    /\ \E s \in Range(result.servers) \cap active_servers :
          /\ server_tools_cache[s] = <<>>
          /\ [server |-> s, tools |-> <<>>, status |-> "already_active"]
                \in ToolEntries(result, s)
          /\ s \in DOMAIN usage
          /\ \E i \in 1..Len(events) : events[i].server = s /\ events[i].success

\* the events an operation appended to the history
NewEvents == SubSeq(events', Len(events) + 1, Len(events'))

\* C39: activate emits exactly one ActivationEvent per backend enable attempt,
\* in the order of the attempts, with the server's name, the success flag equal
\* to the enable result and the backend's error attached on failure, and none
\* for a server skipped as already active; the number of events logged by one
\* call is len(activated) + len(failed).
C39_OneEventPerEnableAttempt ==
    [][Called("activate") =>
        LET r == result'
        IN  /\ Len(events') >= Len(events)
            /\ SubSeq(events', 1, Len(events)) = events
            /\ Len(NewEvents) = Len(r.attempts)
            /\ Len(NewEvents) = Len(r.activated) + Len(r.failed)
            /\ \A i \in 1..Len(r.attempts) :
                  /\ NewEvents[i].server = r.attempts[i].server
                  /\ NewEvents[i].success = r.attempts[i].success
                  /\ NewEvents[i].success => NewEvents[i].error = "none"
                  /\ ~NewEvents[i].success =>
                        NewEvents[i].error \in {"command_failed", "timed_out"}
            /\ \A s \in Range(r.expanded) \cap active_servers :
                  \A i \in 1..Len(NewEvents) : NewEvents[i].server # s
    ]_vars

\* one call that skipped an active server and timed out enabling a second,
\* after a call whose enable succeeded: two events in the history, the second
\* of them from this call
C39_Witness ==
    /\ result.op = "activate"
    /\ Len(result.expanded) = 2
    /\ Len(result.attempts) = 1
    /\ Len(result.tools) = 1
    /\ result.tools[1].status = "already_active"
    /\ result.failed = <<result.attempts[1].server>>
    /\ Len(events) = 2
    /\ events[2].server = result.attempts[1].server
    /\ ~events[2].success
    /\ events[2].error = "timed_out"
    /\ events[1].success

----------------------------------------------------------------------------
(* Claims about a refresh whose inventory listing fails *)

\* a refresh call returned in this step
Refreshed == refreshed'.seq # refreshed.seq

\* C40: a refresh during which the inventory listing fails replaces the cached
\* catalog with an empty map, whatever was cached before, and still records
\* the refresh time; every non-forced refresh within the following discovery
\* interval returns the empty catalog without contacting the backend.
C40_FailedListingEmptiesCatalog ==
    [][Refreshed =>
        /\ (refreshed'.ran /\ ~refreshed'.ls_ok) =>
              /\ registry'.servers = EmptyDict
              /\ registry'.last_discovery = <<now>>
              /\ refreshed'.returned = EmptyDict
        /\ ( /\ ~refreshed'.force
             /\ ~refreshed.ls_ok
             /\ registry.last_discovery # <<>>
             /\ now - registry.last_discovery[1] < discovery_interval ) =>
              /\ ~refreshed'.ran
              /\ refreshed'.calls = refreshed.calls
              /\ refreshed'.returned = EmptyDict
              /\ registry' = registry
    ]_vars

\* a catalog that was listed, then lost to a refresh whose listing failed, and
\* a later non-forced refresh inside the interval that returned the empty map
C40_Witness ==
    /\ refreshed.calls = 2
    /\ refreshed.last_ok # <<>>
    /\ ~refreshed.ls_ok
    /\ ~refreshed.ran
    /\ ~refreshed.force
    /\ refreshed.returned = EmptyDict
    /\ registry.servers = EmptyDict
    /\ registry.last_discovery # <<>>
    /\ registry.last_discovery[1] > refreshed.last_ok[1]
    /\ now > registry.last_discovery[1]
    /\ now - registry.last_discovery[1] < discovery_interval

----------------------------------------------------------------------------
(* Claims about the telemetry history *)

\* the last n elements of a sequence, in order
LastOf(q, n) == SubSeq(q, Len(q) - n + 1, Len(q))

\* C27: the ActivationEvent history is append-only and bounded: after any
\* sequence of log_activation calls it holds at most max_events events, and
\* they are exactly the most recent events logged, unmodified and in the order
\* they were logged (the oldest are evicted first).
C27_HistoryIsMostRecentEvents ==
    result.op = "log_activation" =>
        /\ Len(events) <= HistoryLimit
        /\ Len(events) = IF Len(result.logged) < HistoryLimit
                         THEN Len(result.logged) ELSE HistoryLimit
        /\ events = LastOf(result.logged, Len(events))

\* more events were logged than the history holds, the first of them a failure
\* that has been evicted
C27_Witness ==
    /\ result.op = "log_activation"
    /\ Len(result.logged) > HistoryLimit
    /\ Len(events) = HistoryLimit
    /\ ~result.logged[1].success
    /\ \A i \in 1..Len(events) : events[i].success


----------------------------------------------------------------------------
(* Claims about the UsageRecords *)

\* the record of server s before a call, as the call sees it: a new record has
\* no accesses and no tool counts
CountBefore(s) == IF s \in DOMAIN usage THEN usage[s].access_count ELSE 0

ToolCountBefore(s, t) ==
    IF s \in DOMAIN usage /\ t \in DOMAIN usage[s].tool_usage
    THEN usage[s].tool_usage[t] ELSE 0

ToolCountAfter(s, t) ==
    IF t \in DOMAIN usage'[s].tool_usage THEN usage'[s].tool_usage[t] ELSE 0

\* the call tracked server s: its record exists afterwards with last_used = now
\* and access_count grown by `bump`; the count of tool `used` grew by one (none
\* for an activation), every other tool count and every other record is as
\* before
Tracked(s, bump, used) ==
    /\ s \in DOMAIN usage'
    /\ usage'[s].last_used = now
    /\ usage'[s].access_count = CountBefore(s) + bump
    /\ \A t \in Tools :
          ToolCountAfter(s, t) = ToolCountBefore(s, t) + (IF t = used THEN 1 ELSE 0)
    /\ DOMAIN usage' = DOMAIN usage \cup {s}
    /\ \A o \in DOMAIN usage \ {s} : usage'[o] = usage[o]

\* C29 as stated: track_activation(server) and track_tool_use(server, tool)
\* each create the server's UsageRecord if it is absent, refresh last_used to
\* now and bump access_count; track_tool_use additionally increments that
\* tool's per-tool count by exactly one; after track_activation(s), s appears in
\* get_usage_stats().
C29_BothCallsBumpAccessCount ==
    [][ /\ Called("track_activation") =>
             /\ Tracked(result'.server, 1, "none")
             /\ result'.server \in DOMAIN get_usage_stats(usage')
        /\ Called("track_tool_usage") =>
             Tracked(result'.server, 1, result'.tool) ]_vars

\* C29, amended: both calls create the server's UsageRecord if it is absent
\* and refresh last_used to now; track_tool_use bumps access_count and that
\* tool's count by exactly one, while track_activation leaves access_count (0
\* for a new record) and every tool count as they were; after
\* track_activation(s), s appears in get_usage_stats().
C29_OnlyToolUseBumpsAccessCount ==
    [][ /\ Called("track_activation") =>
             /\ Tracked(result'.server, 0, "none")
             /\ result'.server \in DOMAIN get_usage_stats(usage')
        /\ Called("track_tool_usage") =>
             Tracked(result'.server, 1, result'.tool) ]_vars

\* an activation has just been tracked for a server that was used before: its
\* record is refreshed at a later time and still counts the earlier tool uses
C29_Witness ==
    /\ result.op = "track_activation"
    /\ result.server \in DOMAIN usage
    /\ now > 0
    /\ usage[result.server].last_used = now
    /\ usage[result.server].access_count > 0
    /\ get_usage_stats(usage)[result.server] = usage[result.server].access_count


\* C30: a UsageRecord is never implicitly deleted: once a server has a record,
\* every step of activate, deactivate, sync, recommend_deactivation (monitor_usage)
\* and optimize keeps a record for it, its access_count and per-tool counts do
\* not decrease and its last_used does not move backwards.
C30_UsageRecordsAreKept ==
    [][ \A s \in DOMAIN usage :
          /\ s \in DOMAIN usage'
          /\ usage'[s].access_count >= usage[s].access_count
          /\ usage'[s].last_used >= usage[s].last_used
          /\ \A t \in DOMAIN usage[s].tool_usage :
                /\ t \in DOMAIN usage'[s].tool_usage
                /\ usage'[s].tool_usage[t] >= usage[s].tool_usage[t] ]_vars

\* optimize_servers has just deactivated an idle server whose record, with the
\* tool use counted earlier, is still there
C30_Witness ==
    /\ result.op = "optimize"
    /\ \E s \in Range(result.deactivated) :
          /\ s \notin active_servers
          /\ s \in DOMAIN usage
          /\ usage[s].access_count > 0
          /\ now - usage[s].last_used > idle_timeout


----------------------------------------------------------------------------
(* Claims about the confidence of an analysis *)

\* the keyword-overlap score of a server for a text, in tenths: 5 per tag hit,
\* 3 for a purpose-word hit, at most 10
CappedKeywordScore(name, text) ==
    LET raw == KeywordScore(name, Lower(text))
    IN  IF raw > 10 THEN 10 ELSE raw

\* the matches are keyword-overlap scores, at most five of them, none of a
\* server scoring nothing, and no server left out scores more than one kept
KeywordTopK(an, text) ==
    LET kept == {an.semantic_matches[i].server : i \in 1..Len(an.semantic_matches)}
    IN  /\ Len(an.semantic_matches) <= 5
        /\ \A i \in 1..Len(an.semantic_matches) :
              /\ an.semantic_matches[i].score =
                    CappedKeywordScore(an.semantic_matches[i].server, text)
              /\ an.semantic_matches[i].score > 0
        /\ \A name \in Range(CatalogOrder) \ kept :
              \/ CappedKeywordScore(name, text) = 0
              \/ /\ Len(an.semantic_matches) = 5
                 /\ \A i \in 1..5 :
                       CappedKeywordScore(name, text) <= an.semantic_matches[i].score

\* C31: TaskAnalysisResult.confidence is always within [0,1] and equals 0 when
\* the required set is empty, otherwise the average of the semantic-pass
\* scores, or the flat default 0.7 when the semantic pass returned none; with
\* the keyword-overlap scorer each score is 0.5 per tag hit plus 0.3 for a
\* purpose-word hit, capped at 1.0, and only the top five scores are used.
C31_ConfidenceIsAverageInUnitInterval ==
    analysis # <<>> =>
        LET an == analysis[1]
            c  == an.confidence
            n  == Len(an.semantic_matches)
        IN  /\ c.den > 0
            /\ 0 <= c.num
            /\ c.num <= c.den
            /\ an.required_servers = <<>> => c.num = 0
            /\ (an.required_servers # <<>> /\ n > 0) =>
                   c.num * 10 * n = SumScores(an.semantic_matches) * c.den
            /\ (an.required_servers # <<>> /\ n = 0) => c.num * 10 = 7 * c.den
            /\ result.op # "embedding_scorer" => KeywordTopK(an, task_description)

====
